---- MODULE Spec2Model ----
(***************************************************************************)
(* Verification model of as6-migration-tools: the concurrent scan           *)
(* orchestrator, the analyzer's driver, the library check module and the    *)
(* per-file matchers.  A text is a sequence of one-character strings.       *)
(***************************************************************************)
EXTENDS Naturals, Integers, Sequences, FiniteSets, Bags, TLC

VARIABLES
    \* ---- utils.scan_files_parallel / analyzer.scan_files_parallel ----
    variant,              \* "utils" | "analyzer": which of the two definitions runs
    root_dir,             \* the directory tree: a sequence of entries in walk order
    extensions,           \* the list of suffixes
    process_functions,    \* the list of matcher names
    single_function_mode, \* utils.py:264
    file_paths,           \* the list of paths to process
    futures,              \* future index -> "pending" | "running" | "done" | "failed" | "taken"
    results,              \* matcher name -> list of findings merged so far
    scan_pc,              \* "walk" | "submit" | "collect" | "unwind" | "returned" | "raised"
    scan_ret,             \* the value returned by the call
    \* ---- as4_to_as6_analyzer: import, main ----
    tables_ok,            \* input: every discontinuation JSON document loads
    path_kind,            \* input: "missing" | "file" | "dir", what project_path names
    listing,              \* input: os.listdir(project_path), in the order it is returned
    path_ok,              \* input: check_project_path_and_name accepts path and name
    failing,              \* input: index of the step that raises, 0 for none
    validator,            \* "get_project_file" | "get_and_check_project_file"
    main_pc,              \* "idle" | "import" | "validate" | "open" | "steps" | "except" | "finish" | "exited"
    apj_file,             \* the descriptor the run uses
    step,                 \* index in MainSteps of the next step of main's try block
    ran,                  \* names of the steps that ran to completion
    computed,             \* finding categories computed so far
    transcript,           \* the lines written to the result file
    exit_status,          \* -1 while running, else the process exit status
    \* ---- one matcher applied to one file ----
    m_fn,                 \* the matcher function called
    m_text,               \* the text of the file
    m_table,              \* the rule table passed: a list of <<key, reason>> in dict order
    m_out,                \* the list the matcher returned
    m_pc,                 \* "idle" | "call" | "done"
    \* ---- library_check.check_libraries ----
    load_ok,              \* input: document name -> whether its JSON file loads
    verbose,              \* input: the verbose flag
    pkg_bytes,            \* input: the bytes of the project's .pkg file
    c_bytes,              \* input: the bytes of the project's .c file
    manual_process_libraries,     \* the loaded rule tables
    obsolete_dict,
    manual_libs_results,          \* the results of the four scans
    invalid_pkg_files,
    lby_dependency_results,
    c_include_dependency_results,
    lib_log,              \* the calls of log(...), in order
    load_failed,          \* names of the documents whose load failed
    scanned_with,         \* names of the documents a scan has used
    lib_pc,               \* position in check_libraries
    \* ---- file_compatibility.check_files_for_compatibility ----
    compat_apj,           \* input: the bytes of the project file
    compat_hw,            \* input: the bytes of the .hw files under Physical in walk order
    compat_done,          \* input: the order in which the .hw scan jobs complete
    compat_pkgs,          \* input: the .pkg files under Physical
    compat_verbose,       \* input: the verbose flag
    compat_results,       \* results (file_compatibility.py:39-40)
    compat_refs,          \* reference_files
    compat_log,           \* the calls of log(...) in order
    compat_pc,            \* position in check_files_for_compatibility
    \* ---- utils.log with a transcript file ----
    log_args,             \* input: message when severity and the loaded links of one call of utils.log
    log_console,          \* the text printed to the console
    log_written,          \* the text written to the transcript file
    log_pc,               \* "idle" | "call" | "done"
    \* ---- hardware_check.check_hardware / file_device_check.check_file_devices: the grouped report ----
    group_module,         \* input: "check_hardware" | "check_file_devices"
    group_files,          \* input: per .hw file in walk order the set of findings its matcher returns
    group_dirs,           \* input: per .hw file the name of the directory it lies in
    group_done,           \* input: the order in which the scan jobs complete
    group_verbose,        \* input: the verbose flag
    group_results,        \* the list scan_files_parallel returned
    group_log,            \* the calls of log(...) in order
    group_pc,             \* "idle" | "scan" | "report" | "done"
    \* ---- two runs of the analyzer over one project tree ----
    tw_tree,              \* input: the files of the project tree
    tw_first,             \* input: whether the directory lists the result file before the project files
    tw_out,               \* the result file in the project directory: whether it exists and its lines
    tw_run,               \* 1 | 2: which run of the analyzer is under way
    tw_apj,               \* the descriptor get_project_file returned
    tw_step,              \* index in SuiteScans of the next scan
    tw_found,             \* run -> the set of findings of that run
    tw_pc,                \* "idle" | "validate" | "open" | "scans" | "descriptor" | "close" | "done"
    \* ---- mapp_services.check_mapp_version ----
    mp_apj,               \* input: the bytes of the project descriptor
    mp_verbose,           \* input: the verbose flag
    mp_physical,          \* input: whether Physical is a directory
    mp_configs,           \* input: per configuration folder the package folders present and those cpu.pkg references
    mp_choice,            \* motion_choice
    mp_required,          \* required_mapp_folders
    mp_log,               \* the calls of log(...) in order
    mp_pc,                \* "idle" | "versions" | "motion" | "folders" | "done"
    \* ---- one invocation of the analyzer from the launcher or the command line ----
    run_origin,           \* input: "gui" (Evaluate AS4 project) | "cli" | "cli_no_file"
    run_verbose,          \* input: the verbose choice
    run_path,             \* input: the project path
    run_name,             \* input: the name of the .apj file
    run_variant,          \* input: which check_project_path_and_name is called
    run_argv,             \* sys.argv
    run_file,             \* whether the transcript file was created
    run_log,              \* the calls of log(...) in order
    run_ran,              \* whether the remaining checks ran
    run_exit,             \* the exit status or -1
    run_pc,               \* "idle" | "argv" | "parse" | "open" | "path" | "checks" | "done"
    \* ---- safety_check.check_safety ----
    sf_apj,               \* input: the .apj of the project root: "none" | "unparsable" | "plain" | "mappSafety"
    sf_files,             \* input: the files of the project in walk order
    sf_result,            \* the dict check_safety_release returned
    sf_findings,          \* the list check_safety returned
    sf_pc,                \* "idle" | "release" | "findings" | "done"
    \* ---- scene_viewer.check_scene_viewer ----
    sc_oh,                \* input: the .objecthierarchy files of the project in rglob order
    sc_hw,                \* input: the .hw files of the project in rglob order
    sc_logical,           \* input: whether Logical exists and holds a .scn file
    sc_verbose,           \* input: the verbose flag
    sc_i,                 \* index of the file the running loop is at
    sc_log,               \* the calls of log so far
    sc_pc,                \* "idle" | "header" | "oh" | "hw" | "scn" | "none" | "done"
    \* ---- update_check ----
    up_file,              \* the state file: absent or corrupt or a JSON object
    up_before,            \* the state file before the last call
    up_current,           \* input: the version of the running program
    up_release,           \* what fetch_latest_release returned to the last check_for_newer
    up_returned,          \* what the last check_for_newer returned
    up_ops                \* the calls made so far

scanVars == <<variant, root_dir, extensions, process_functions,
              single_function_mode, file_paths, futures, results, scan_pc, scan_ret>>

mainInputs == <<tables_ok, path_kind, listing, path_ok, failing, validator>>
mainVars == <<mainInputs, main_pc, apj_file, step, ran, computed, transcript, exit_status>>

matchVars == <<m_fn, m_text, m_table, m_out, m_pc>>

libInputs == <<load_ok, verbose, pkg_bytes, c_bytes>>
libVars == <<libInputs, manual_process_libraries, obsolete_dict, manual_libs_results,
             invalid_pkg_files, lby_dependency_results, c_include_dependency_results,
             lib_log, load_failed, scanned_with, lib_pc>>

compatVars == <<compat_apj, compat_hw, compat_done, compat_pkgs, compat_verbose,
                compat_results, compat_refs, compat_log, compat_pc>>

logVars == <<log_args, log_console, log_written, log_pc>>

groupVars == <<group_module, group_files, group_dirs, group_done, group_verbose, group_results,
               group_log, group_pc>>

twiceVars == <<tw_tree, tw_first, tw_out, tw_run, tw_apj, tw_step, tw_found, tw_pc>>

mappVars == <<mp_apj, mp_verbose, mp_physical, mp_configs, mp_choice, mp_required,
              mp_log, mp_pc>>

runVars == <<run_origin, run_verbose, run_path, run_name, run_variant, run_argv,
             run_file, run_log, run_ran, run_exit, run_pc>>

safetyVars == <<sf_apj, sf_files, sf_result, sf_findings, sf_pc>>

sceneVars == <<sc_oh, sc_hw, sc_logical, sc_verbose, sc_i, sc_log, sc_pc>>

updateVars == <<up_file, up_before, up_current, up_release, up_returned, up_ops>>

nonScanVars == <<mainVars, matchVars, libVars, compatVars, logVars, groupVars, twiceVars, mappVars, runVars, safetyVars, sceneVars, updateVars>>
nonMainVars == <<scanVars, matchVars, libVars, compatVars, logVars, groupVars, twiceVars, mappVars, runVars, safetyVars, sceneVars, updateVars>>
nonMatchVars == <<scanVars, mainVars, libVars, compatVars, logVars, groupVars, twiceVars, mappVars, runVars, safetyVars, sceneVars, updateVars>>
nonLibVars == <<scanVars, mainVars, matchVars, compatVars, logVars, groupVars, twiceVars, mappVars, runVars, safetyVars, sceneVars, updateVars>>
nonCompatVars == <<scanVars, mainVars, matchVars, libVars, logVars, groupVars, twiceVars, mappVars, runVars, safetyVars, sceneVars, updateVars>>
nonLogVars == <<scanVars, mainVars, matchVars, libVars, compatVars, groupVars, twiceVars, mappVars, runVars, safetyVars, sceneVars, updateVars>>
nonGroupVars == <<scanVars, mainVars, matchVars, libVars, compatVars, logVars, twiceVars, mappVars, runVars, safetyVars, sceneVars, updateVars>>
nonTwiceVars == <<scanVars, mainVars, matchVars, libVars, compatVars, logVars, groupVars, mappVars, runVars, safetyVars, sceneVars, updateVars>>
nonMappVars == <<scanVars, mainVars, matchVars, libVars, compatVars, logVars, groupVars, twiceVars, runVars, safetyVars, sceneVars, updateVars>>
nonRunVars == <<scanVars, mainVars, matchVars, libVars, compatVars, logVars, groupVars, twiceVars, mappVars, safetyVars, sceneVars, updateVars>>
nonSafetyVars == <<scanVars, mainVars, matchVars, libVars, compatVars, logVars, groupVars, twiceVars, mappVars, runVars, sceneVars, updateVars>>
nonSceneVars == <<scanVars, mainVars, matchVars, libVars, compatVars, logVars, groupVars, twiceVars, mappVars, runVars, safetyVars, updateVars>>
nonUpdateVars == <<scanVars, mainVars, matchVars, libVars, compatVars, logVars, groupVars, twiceVars, mappVars, runVars, safetyVars, sceneVars>>

vars == <<scanVars, mainVars, matchVars, libVars, compatVars, logVars, groupVars, twiceVars, mappVars, runVars, safetyVars, sceneVars, updateVars>>

----------------------------------------------------------------------------
(* Bounds of the model *)
MaxHits == 2
MaxWorkers == 2

----------------------------------------------------------------------------
(* Generic helpers *)

Range(s) == {s[i] : i \in 1..Len(s)}

\* str.endswith
EndsWith(s, suf) ==
    /\ Len(suf) <= Len(s)
    /\ SubSeq(s, Len(s) - Len(suf) + 1, Len(s)) = suf

RECURSIVE SeqToBag(_)
SeqToBag(s) ==
    IF s = <<>> THEN EmptyBag ELSE SetToBag({Head(s)}) (+) SeqToBag(Tail(s))

RECURSIVE Flatten(_)
Flatten(ss) == IF ss = <<>> THEN <<>> ELSE Head(ss) \o Flatten(Tail(ss))

\* All sequences over S of length at most n
RECURSIVE SeqsUpTo(_, _)
SeqsUpTo(S, n) ==
    IF n = 0 THEN {<<>>}
    ELSE LET shorter == SeqsUpTo(S, n - 1)
         IN shorter \cup {Append(t, c) : t \in shorter, c \in S}

UpperLetters == <<"A", "B", "C", "D", "E", "F", "G", "H", "I", "J", "K", "L", "M",
                  "N", "O", "P", "Q", "R", "S", "T", "U", "V", "W", "X", "Y", "Z">>
LowerLetters == <<"a", "b", "c", "d", "e", "f", "g", "h", "i", "j", "k", "l", "m",
                  "n", "o", "p", "q", "r", "s", "t", "u", "v", "w", "x", "y", "z">>
Digits == {"0", "1", "2", "3", "4", "5", "6", "7", "8", "9"}

\* regex \w and \s
WordChars == Range(UpperLetters) \cup Range(LowerLetters) \cup Digits \cup {"_"}
SpaceChars == {" ", "\t", "\n", "\r"}

\* str.lower
LowerChar(c) ==
    IF \E i \in 1..Len(UpperLetters) : UpperLetters[i] = c
    THEN LowerLetters[CHOOSE i \in 1..Len(UpperLetters) : UpperLetters[i] = c]
    ELSE c
Lower(t) == [i \in 1..Len(t) |-> LowerChar(t[i])]

\* text[i..] starts with lit
HasAt(text, i, lit) ==
    /\ i >= 1
    /\ i + Len(lit) - 1 <= Len(text)
    /\ SubSeq(text, i, i + Len(lit) - 1) = lit

\* Length of the longest run of characters of S (resp. not of S) from position i
RECURSIVE RunIn(_, _, _)
RunIn(text, i, S) ==
    IF i <= Len(text) /\ text[i] \in S THEN 1 + RunIn(text, i + 1, S) ELSE 0

RECURSIVE RunNotIn(_, _, _)
RunNotIn(text, i, S) ==
    IF i <= Len(text) /\ text[i] \notin S THEN 1 + RunNotIn(text, i + 1, S) ELSE 0

----------------------------------------------------------------------------
(* The scanned tree.  An entry is a directory or a file; a file has the     *)
(* number of findings a matcher produces on it, or makes the matcher raise. *)

NameC  == <<"a", ".", "c">>
NameCP == <<"a", ".", "c", "p">>
NameP  == <<"b", ".", "p">>
Names == <<NameC, NameCP, NameP>>

EntryOptions(n) ==
    {[name |-> n, kind |-> "dir", hits |-> 0, bad |-> FALSE],
     [name |-> n, kind |-> "file", hits |-> 0, bad |-> TRUE]}
    \cup {[name |-> n, kind |-> "file", hits |-> h, bad |-> FALSE] : h \in 1..MaxHits}

RECURSIVE TreesOver(_)
TreesOver(ns) ==
    IF ns = <<>> THEN {<<>>}
    ELSE LET rest == TreesOver(Tail(ns))
         IN rest \cup {<<e>> \o t : e \in EntryOptions(Head(ns)), t \in rest}

Trees == TreesOver(Names)

ExtensionLists ==
    {<< <<".", "c">> >>,
     << <<".", "c">>, <<".", "c", "p">> >>,
     << <<".", "c", "p">>, <<"p">> >>,
     << <<".", "c">>, <<".", "p">>, <<".", "c", "p">> >>}

EntryOf(tree, path) == CHOOSE e \in Range(tree) : e.name = path

\* What matcher func returns on the file at path: one finding per hit.
MatcherOut(tree, func, path) ==
    [k \in 1..EntryOf(tree, path).hits |-> <<func, path, k>>]

MatcherRaises(tree, path) == EntryOf(tree, path).bad

----------------------------------------------------------------------------
(* utils.scan_files_parallel: the list of file paths *)

IsFile(e) == e.kind = "file"

\* root_dir.rglob(f"*{ext}"): every entry, file or directory, whose name ends in ext
RGlob(tree, ext) == SelectSeq(tree, LAMBDA e : EndsWith(e.name, ext))

PathsOf(entries) == [i \in 1..Len(entries) |-> entries[i].name]

RECURSIVE UtilsFilePaths(_, _)
UtilsFilePaths(tree, exts) ==
    IF exts = <<>> THEN <<>>
    ELSE PathsOf(SelectSeq(RGlob(tree, Head(exts)), IsFile))
         \o UtilsFilePaths(tree, Tail(exts))

\* analyzer: os.walk lists the files; any(file.endswith(ext) for ext in extensions)
AnalyzerFilePaths(tree, exts) ==
    PathsOf(SelectSeq(tree,
        LAMBDA e : IsFile(e) /\ \E i \in 1..Len(exts) : EndsWith(e.name, exts[i])))

----------------------------------------------------------------------------
(* scan_files_parallel as a state machine.  The calling thread walks the    *)
(* tree, submits one future per listed path, and merges the futures as they *)
(* complete; the pool's worker threads run the futures.                     *)

\* The state of a unit that a specification does not exercise
MainIdle ==
    /\ tables_ok = TRUE /\ path_kind = "dir" /\ listing = <<>> /\ path_ok = TRUE
    /\ failing = 0 /\ validator = "get_project_file"
    /\ main_pc = "idle" /\ apj_file = <<>> /\ step = 1 /\ ran = {} /\ computed = {}
    /\ transcript = <<>> /\ exit_status = -1

MatchIdle ==
    m_fn = "none" /\ m_text = <<>> /\ m_table = <<>> /\ m_out = <<>> /\ m_pc = "idle"

LibIdle ==
    /\ load_ok = <<>> /\ verbose = FALSE /\ pkg_bytes = <<>> /\ c_bytes = <<>>
    /\ manual_process_libraries = <<>> /\ obsolete_dict = <<>>
    /\ manual_libs_results = <<>> /\ invalid_pkg_files = <<>>
    /\ lby_dependency_results = <<>> /\ c_include_dependency_results = <<>>
    /\ lib_log = <<>> /\ load_failed = {} /\ scanned_with = {} /\ lib_pc = "idle"

CompatIdle ==
    /\ compat_apj = <<>> /\ compat_hw = <<>> /\ compat_done = <<>> /\ compat_pkgs = <<>>
    /\ compat_verbose = FALSE /\ compat_results = <<>> /\ compat_refs = <<>>
    /\ compat_log = <<>> /\ compat_pc = "idle"

LogIdle ==
    log_args = <<>> /\ log_console = <<>> /\ log_written = <<>> /\ log_pc = "idle"

GroupIdle ==
    /\ group_module = "none" /\ group_files = <<>> /\ group_dirs = <<>> /\ group_done = <<>> /\ group_verbose = FALSE
    /\ group_results = <<>> /\ group_log = <<>> /\ group_pc = "idle"

TwiceIdle ==
    /\ tw_tree = {} /\ tw_first = FALSE /\ tw_out = <<>> /\ tw_run = 0 /\ tw_apj = <<>>
    /\ tw_step = 0 /\ tw_found = <<>> /\ tw_pc = "idle"

MappIdle ==
    /\ mp_apj = <<>> /\ mp_verbose = FALSE /\ mp_physical = FALSE /\ mp_configs = <<>>
    /\ mp_choice = "" /\ mp_required = <<>> /\ mp_log = <<>> /\ mp_pc = "idle"

RunIdle ==
    /\ run_origin = "" /\ run_verbose = FALSE /\ run_path = <<>> /\ run_name = <<>>
    /\ run_variant = "" /\ run_argv = <<>> /\ run_file = FALSE /\ run_log = <<>>
    /\ run_ran = FALSE /\ run_exit = -1 /\ run_pc = "idle"

SafetyIdle ==
    /\ sf_apj = "" /\ sf_files = <<>> /\ sf_result = <<>> /\ sf_findings = <<>> /\ sf_pc = "idle"

SceneIdle ==
    /\ sc_oh = <<>> /\ sc_hw = <<>> /\ sc_logical = <<>> /\ sc_verbose = FALSE /\ sc_i = 0 /\ sc_log = <<>> /\ sc_pc = "idle"

UpdateIdle ==
    /\ up_file = <<>> /\ up_before = <<>> /\ up_current = <<>> /\ up_release = <<>> /\ up_returned = <<>> /\ up_ops = <<>>

ScanIdle ==
    /\ variant = "utils" /\ root_dir = <<>> /\ extensions = <<>>
    /\ process_functions = <<>> /\ single_function_mode = TRUE
    /\ file_paths = <<>> /\ futures = <<>> /\ results = <<>>
    /\ scan_pc = "idle" /\ scan_ret = <<>>

ScanModes ==
    {[variant |-> "utils", single |-> TRUE, funcs |-> <<"m1">>],
     [variant |-> "utils", single |-> FALSE, funcs |-> <<"m1", "m2">>],
     [variant |-> "analyzer", single |-> TRUE, funcs |-> <<"m1">>]}

ScanInit ==
    /\ \E m \in ScanModes :
          /\ variant = m.variant
          /\ single_function_mode = m.single
          /\ process_functions = m.funcs
    /\ root_dir \in Trees
    /\ extensions \in ExtensionLists
    /\ file_paths = <<>>
    /\ futures = <<>>
    /\ results = <<>>
    /\ scan_pc = "walk"
    /\ scan_ret = <<>>
    /\ MainIdle
    /\ MatchIdle
    /\ LibIdle
    /\ CompatIdle
    /\ LogIdle
    /\ GroupIdle
    /\ TwiceIdle
    /\ MappIdle
    /\ RunIdle
    /\ SafetyIdle
    /\ SceneIdle
    /\ UpdateIdle

\* utils.py:268-275, analyzer:104-110
ListFiles(v, tree, exts) ==
    IF v = "utils" THEN UtilsFilePaths(tree, exts) ELSE AnalyzerFilePaths(tree, exts)

Walk ==
    /\ scan_pc = "walk"
    /\ results' = [f \in Range(process_functions) |-> <<>>]
    /\ file_paths' = ListFiles(variant, root_dir, extensions)
    /\ scan_pc' = "submit"
    /\ UNCHANGED nonScanVars
    /\ UNCHANGED <<variant, root_dir, extensions, process_functions,
                   single_function_mode, futures, scan_ret>>

\* executor.submit(process_file, path) for path in file_paths
Submit ==
    /\ scan_pc = "submit"
    /\ futures' = [i \in 1..Len(file_paths) |-> "pending"]
    /\ scan_pc' = "collect"
    /\ UNCHANGED nonScanVars
    /\ UNCHANGED <<variant, root_dir, extensions, process_functions,
                   single_function_mode, file_paths, results, scan_ret>>

Running == {i \in DOMAIN futures : futures[i] = "running"}

\* A free worker thread of the pool picks a queued future.
WorkerStart(i) ==
    /\ scan_pc \in {"collect", "unwind"}
    /\ futures[i] = "pending"
    /\ Cardinality(Running) < MaxWorkers
    /\ futures' = [futures EXCEPT ![i] = "running"]
    /\ UNCHANGED nonScanVars
    /\ UNCHANGED <<variant, root_dir, extensions, process_functions,
                   single_function_mode, file_paths, results, scan_pc, scan_ret>>

\* WorkerFinish mutated: the worker thread extends the shared result lists itself
WorkerFinishAndMerge(i) ==
    /\ scan_pc \in {"collect", "unwind"}
    /\ futures[i] = "running"
    /\ futures' = [futures EXCEPT ![i] =
                      IF MatcherRaises(root_dir, file_paths[i]) THEN "failed" ELSE "done"]
    /\ results' = [f \in DOMAIN results |->
                      results[f] \o MatcherOut(root_dir, f, file_paths[i])]
    /\ UNCHANGED nonScanVars
    /\ UNCHANGED <<variant, root_dir, extensions, process_functions,
                   single_function_mode, file_paths, scan_pc, scan_ret>>

\* process_file(path): the future holds the results, or the matcher's exception
ProcessFileOutcome(tree, path) ==
    IF MatcherRaises(tree, path) THEN "failed" ELSE "done"

WorkerFinish(i) ==
    /\ scan_pc \in {"collect", "unwind"}
    /\ futures[i] = "running"
    /\ futures' = [futures EXCEPT ![i] = ProcessFileOutcome(root_dir, file_paths[i])]
    /\ UNCHANGED nonScanVars
    /\ UNCHANGED <<variant, root_dir, extensions, process_functions,
                   single_function_mode, file_paths, results, scan_pc, scan_ret>>

\* results[func_name].extend(result) for each matcher of the completed future
Merge(res, tree, path) ==
    [f \in DOMAIN res |-> res[f] \o MatcherOut(tree, f, path)]

\* as_completed yields a finished future; future.result() returns or re-raises
Collect(i) ==
    /\ scan_pc = "collect"
    /\ futures[i] \in {"done", "failed"}
    /\ IF futures[i] = "done"
       THEN /\ results' = Merge(results, root_dir, file_paths[i])
            /\ scan_pc' = scan_pc
       ELSE /\ results' = results
            /\ scan_pc' = "unwind"
    /\ futures' = [futures EXCEPT ![i] = "taken"]
    /\ UNCHANGED nonScanVars
    /\ UNCHANGED <<variant, root_dir, extensions, process_functions,
                   single_function_mode, file_paths, scan_ret>>

AllFinished == \A i \in DOMAIN futures : futures[i] \in {"done", "failed", "taken"}

\* the with-block's exit joins the pool, then the exception leaves the call
Unwound ==
    /\ scan_pc = "unwind"
    /\ AllFinished
    /\ scan_pc' = "raised"
    /\ UNCHANGED nonScanVars
    /\ UNCHANGED <<variant, root_dir, extensions, process_functions,
                   single_function_mode, file_paths, futures, results, scan_ret>>

ReturnValue(single, funcs, res) == IF single THEN res[funcs[1]] ELSE res

Return ==
    /\ scan_pc = "collect"
    /\ \A i \in DOMAIN futures : futures[i] = "taken"
    /\ scan_pc' = "returned"
    /\ scan_ret' = ReturnValue(single_function_mode, process_functions, results)
    /\ UNCHANGED nonScanVars
    /\ UNCHANGED <<variant, root_dir, extensions, process_functions,
                   single_function_mode, file_paths, futures, results>>

ScanNext ==
    \/ Walk
    \/ Submit
    \/ \E i \in DOMAIN futures : WorkerStart(i)
    \/ \E i \in DOMAIN futures : WorkerFinish(i)
    \/ \E i \in DOMAIN futures : Collect(i)
    \/ Unwound
    \/ Return

SpecScan == ScanInit /\ [][ScanNext]_vars

\* The findings the call returned for matcher f
ReturnedFor(f) == IF single_function_mode THEN scan_ret ELSE scan_ret[f]

\* The files of the tree whose name ends in one of the suffixes
MatchingFiles ==
    {e \in Range(root_dir) :
        IsFile(e) /\ \E i \in 1..Len(extensions) : EndsWith(e.name, extensions[i])}

\* Every finding of every matching file, once
ExpectedFindings(f) ==
    SetToBag(UNION {{<<f, e.name, k>> : k \in 1..e.hits} : e \in MatchingFiles})

\* C1: when the scan returns, the returned findings of each matcher are, as a
\* multiset, the findings of the matching files, each file counted exactly once
\* (no file skipped, none counted twice), whatever the completion order.
C1_EveryFileExactlyOnce ==
    scan_pc = "returned" =>
        \A f \in Range(process_functions) :
            SeqToBag(ReturnedFor(f)) = ExpectedFindings(f)

\* C2: a matcher that raises on one file does not make the scan raise; the
\* failing file counts as zero findings and the scan still returns.
C2_MatcherFailureIsolated ==
    (\E e \in MatchingFiles : e.bad) => scan_pc # "raised"

\* C14: the call returns, so that its caller can report, only after every
\* scan job has finished and been merged; the result lists change only in a
\* step of the calling thread's as_completed loop; a worker thread's step
\* changes neither the result lists nor the returned value nor the transcript.
C14_MergeAndReportOnCallingThread ==
    [][ /\ (results' # results /\ scan_pc # "walk") =>
              /\ scan_pc = "collect"
              /\ \E i \in DOMAIN futures : futures[i] = "done" /\ futures'[i] = "taken"
        /\ (\E i \in DOMAIN futures : futures[i] = "running" /\ futures'[i] # "running") =>
              UNCHANGED <<results, scan_ret, transcript>>
        /\ (scan_pc' = "returned" /\ scan_pc # "returned") =>
              \A i \in DOMAIN futures : futures[i] = "taken"
        /\ transcript' = transcript ]_vars

C14_Witness ==
    /\ scan_pc = "returned" /\ Cardinality(Range(file_paths)) >= 2
    /\ \E f \in Range(process_functions) : Len(ReturnedFor(f)) >= 2

\* C15: given a list of matchers the call returns a dict with one entry per
\* matcher, holding that matcher's findings over all matching files, each
\* file once; given a single function it returns a flat list of them.
C15_OneEntryPerMatcher ==
    scan_pc = "returned" =>
        IF single_function_mode
        THEN /\ DOMAIN scan_ret = 1..Len(scan_ret)
             /\ SeqToBag(scan_ret) = ExpectedFindings(process_functions[1])
        ELSE /\ DOMAIN scan_ret = Range(process_functions)
             /\ \A f \in Range(process_functions) :
                   /\ SeqToBag(scan_ret[f]) = ExpectedFindings(f)
                   /\ \A j \in 1..Len(scan_ret[f]) : scan_ret[f][j][1] = f

----------------------------------------------------------------------------
(* as4_to_as6_analyzer: import-time loading of the rule tables, project     *)
(* validation, and main's try block as a list of steps.                     *)

ApjA == <<"A", ".", "a", "p", "j">>
ApjB == <<"B", ".", "a", "p", "j">>
Other == <<"n", ".", "t", "x", "t">>
DotApj == <<".", "a", "p", "j">>

\* The orders in which os.listdir can return the top-level names
Listings ==
    {<<>>, <<Other>>, <<ApjA>>, <<ApjA, Other>>, <<Other, ApjA>>,
     <<ApjA, ApjB>>, <<ApjB, ApjA>>, <<ApjB, Other, ApjA>>}

\* [file for file in os.listdir(project_path) if file.endswith(".apj")]
ApjFiles(names) == SelectSeq(names, LAMBDA n : EndsWith(n, DotApj))

\* get_project_file mutated: the "no .apj file" exit is dropped
GetProjectFileNoApjCheck(kind, names) ==
    IF kind = "missing" THEN [outcome |-> "exit", status |-> 1, apj |-> <<>>]
    ELSE IF kind = "file" THEN [outcome |-> "exit", status |-> 1, apj |-> <<>>]
    ELSE [outcome |-> "ok", status |-> 0,
          apj |-> IF ApjFiles(names) = <<>> THEN <<>> ELSE ApjFiles(names)[1]]

\* get_project_file mutated: a second .apj file is refused as well
GetProjectFileExactlyOne(kind, names) ==
    IF kind = "missing" THEN [outcome |-> "exit", status |-> 1, apj |-> <<>>]
    ELSE IF kind = "file" THEN [outcome |-> "exit", status |-> 1, apj |-> <<>>]
    ELSE IF Len(ApjFiles(names)) # 1 THEN [outcome |-> "exit", status |-> 1, apj |-> <<>>]
    ELSE [outcome |-> "ok", status |-> 0, apj |-> ApjFiles(names)[1]]

\* analyzer.get_project_file: sys.exit(1) on a missing path or no .apj; listing
\* a path that is no directory raises, which ends the process with status 1
get_project_file(kind, names) ==
    IF kind = "missing" THEN [outcome |-> "exit", status |-> 1, apj |-> <<>>]
    ELSE IF kind = "file" THEN [outcome |-> "exit", status |-> 1, apj |-> <<>>]
    ELSE IF ApjFiles(names) = <<>> THEN [outcome |-> "exit", status |-> 1, apj |-> <<>>]
    ELSE [outcome |-> "ok", status |-> 0, apj |-> ApjFiles(names)[1]]

\* utils.get_and_check_project_file: next(project_path.glob("*.apj"), None)
get_and_check_project_file(kind, names) ==
    IF kind = "missing" THEN [outcome |-> "exit", status |-> 1, apj |-> <<>>]
    ELSE LET found == IF kind = "dir" THEN ApjFiles(names) ELSE <<>>
         IN IF found = <<>> THEN [outcome |-> "exit", status |-> 1, apj |-> <<>>]
            ELSE [outcome |-> "ok", status |-> 0, apj |-> found[1]]

\* main's try block, in program order.  A step computes finding categories
\* and writes the findings of categories to the transcript.
MainSteps ==
    << [name |-> "log_start", kind |-> "log", computes |-> {}, reports |-> <<>>],
       [name |-> "check_project_path_and_name", kind |-> "log", computes |-> {}, reports |-> <<>>],
       [name |-> "scan_manual_libs", kind |-> "scan", computes |-> {"manual_libs"}, reports |-> <<>>],
       [name |-> "scan_pkg", kind |-> "scan", computes |-> {"pkg"}, reports |-> <<>>],
       [name |-> "scan_var_typ", kind |-> "scan", computes |-> {"var_typ"}, reports |-> <<>>],
       [name |-> "scan_st_c", kind |-> "scan", computes |-> {"st_c"}, reports |-> <<>>],
       [name |-> "scan_hw", kind |-> "scan", computes |-> {"hardware"}, reports |-> <<>>],
       [name |-> "scan_file_devices", kind |-> "scan", computes |-> {"file_devices"}, reports |-> <<>>],
       [name |-> "scan_ftp", kind |-> "scan", computes |-> {"ftp"}, reports |-> <<>>],
       [name |-> "scan_lby", kind |-> "scan", computes |-> {"lby"}, reports |-> <<>>],
       [name |-> "scan_includes", kind |-> "scan", computes |-> {"includes"}, reports |-> <<>>],
       [name |-> "check_deprecated_string_functions", kind |-> "check",
        computes |-> {"deprecated_string"}, reports |-> <<>>],
       [name |-> "check_deprecated_math_functions", kind |-> "check",
        computes |-> {"deprecated_math"}, reports |-> <<>>],
       [name |-> "check_files_for_compatibility", kind |-> "check",
        computes |-> {"compatibility"}, reports |-> <<"compatibility">>],
       [name |-> "check_uad_files", kind |-> "check", computes |-> {"uad"}, reports |-> <<"uad">>],
       [name |-> "report_hardware", kind |-> "report", computes |-> {}, reports |-> <<"hardware">>],
       [name |-> "report_file_devices", kind |-> "report", computes |-> {}, reports |-> <<"file_devices">>],
       [name |-> "report_ftp", kind |-> "report", computes |-> {}, reports |-> <<"ftp">>],
       [name |-> "report_pkg", kind |-> "report", computes |-> {}, reports |-> <<"pkg">>],
       [name |-> "report_manual_libs", kind |-> "report", computes |-> {}, reports |-> <<"manual_libs">>],
       [name |-> "report_dependencies", kind |-> "report", computes |-> {}, reports |-> <<"lby", "includes">>],
       [name |-> "report_function_blocks", kind |-> "report", computes |-> {}, reports |-> <<"var_typ">>],
       [name |-> "report_functions", kind |-> "report", computes |-> {},
        reports |-> <<"st_c", "deprecated_string", "deprecated_math">>],
       [name |-> "check_safety", kind |-> "check", computes |-> {"safety"}, reports |-> <<"safety">>],
       [name |-> "check_vision_settings", kind |-> "check", computes |-> {"vision"}, reports |-> <<"vision">>],
       [name |-> "check_mappView", kind |-> "check", computes |-> {"mappView"}, reports |-> <<"mappView">>],
       [name |-> "check_mapp_version", kind |-> "check", computes |-> {"mapp_version"}, reports |-> <<"mapp_version">>],
       [name |-> "log_completed", kind |-> "log", computes |-> {}, reports |-> <<>>] >>

NumSteps == Len(MainSteps)

MainInit ==
    /\ tables_ok \in BOOLEAN
    /\ path_kind \in {"missing", "file", "dir"}
    /\ listing \in Listings
    /\ path_ok \in BOOLEAN
    /\ failing \in 0..NumSteps
    /\ validator \in {"get_project_file", "get_and_check_project_file"}
    /\ main_pc = "import"
    /\ apj_file = <<>>
    /\ step = 1
    /\ ran = {}
    /\ computed = {}
    /\ transcript = <<>>
    /\ exit_status = -1
    /\ ScanIdle
    /\ MatchIdle
    /\ LibIdle
    /\ CompatIdle
    /\ LogIdle
    /\ GroupIdle
    /\ TwiceIdle
    /\ MappIdle
    /\ RunIdle
    /\ SafetyIdle
    /\ SceneIdle
    /\ UpdateIdle

\* analyzer:31-42: a document that cannot be read ends the process, status 1
ImportTables ==
    /\ main_pc = "import"
    /\ IF tables_ok
       THEN main_pc' = "validate" /\ exit_status' = exit_status
       ELSE main_pc' = "exited" /\ exit_status' = 1
    /\ UNCHANGED <<mainInputs, apj_file, step, ran, computed, transcript>>
    /\ UNCHANGED nonMainVars

Validate(kind, names) ==
    IF validator = "get_project_file"
    THEN get_project_file(kind, names)
    ELSE get_and_check_project_file(kind, names)

\* main: args, parser = parse_args(); apj_file = get_project_file(args, parser)
GetProjectFile ==
    /\ main_pc = "validate"
    /\ LET r == Validate(path_kind, listing)
       IN IF r.outcome = "ok"
          THEN main_pc' = "open" /\ apj_file' = r.apj /\ exit_status' = exit_status
          ELSE main_pc' = "exited" /\ apj_file' = apj_file /\ exit_status' = r.status
    /\ UNCHANGED <<mainInputs, step, ran, computed, transcript>>
    /\ UNCHANGED nonMainVars

\* with open(output_file, "w", encoding="utf-8") as file:
OpenOutput ==
    /\ main_pc = "open"
    /\ transcript' = <<>>
    /\ main_pc' = "steps"
    /\ UNCHANGED <<mainInputs, apj_file, step, ran, computed, exit_status>>
    /\ UNCHANGED nonMainVars

FindingLines(cats) == [i \in 1..Len(cats) |-> <<"finding", cats[i]>>]

\* The lines a step logs: the path warning only for an invalid path or name
StepLines(s) ==
    IF s.name = "check_project_path_and_name"
    THEN (IF path_ok THEN <<>> ELSE << <<"log", "invalid_path">> >>)
    ELSE IF s.kind = "log" THEN << <<"log", s.name>> >>
    ELSE FindingLines(s.reports)

RunStep(kind) ==
    /\ main_pc = "steps"
    /\ step <= NumSteps
    /\ step # failing
    /\ MainSteps[step].kind = kind
    /\ computed' = computed \cup MainSteps[step].computes
    /\ transcript' = transcript \o StepLines(MainSteps[step])
    /\ ran' = ran \cup {MainSteps[step].name}
    /\ step' = step + 1
    /\ UNCHANGED <<mainInputs, main_pc, apj_file, exit_status>>
    /\ UNCHANGED nonMainVars

\* scan_files_parallel(...) called by main
RunScan == RunStep("scan")

\* a function of the checks package called by main, and the loop logging its result
RunCheck == RunStep("check")

\* main's own log(...) calls over results computed earlier
Report == RunStep("report")

LogLine == RunStep("log")

\* the step raises: control leaves the try block for the except clause
StepRaises ==
    /\ main_pc = "steps"
    /\ step <= NumSteps
    /\ step = failing
    /\ main_pc' = "except"
    /\ UNCHANGED <<mainInputs, apj_file, step, ran, computed, transcript, exit_status>>
    /\ UNCHANGED nonMainVars

\* analyzer:841-852: print the error and append it to the result file
HandleException ==
    /\ main_pc = "except"
    /\ transcript' = transcript \o << <<"error", MainSteps[step].name>> >>
    /\ main_pc' = "finish"
    /\ UNCHANGED <<mainInputs, apj_file, step, ran, computed, exit_status>>
    /\ UNCHANGED nonMainVars

TryBlockEnds ==
    /\ main_pc = "steps"
    /\ step > NumSteps
    /\ main_pc' = "finish"
    /\ UNCHANGED <<mainInputs, apj_file, step, ran, computed, transcript, exit_status>>
    /\ UNCHANGED nonMainVars

\* analyzer:854: main returns, the process ends with status 0
Finish ==
    /\ main_pc = "finish"
    /\ main_pc' = "exited"
    /\ exit_status' = 0
    /\ UNCHANGED <<mainInputs, apj_file, step, ran, computed, transcript>>
    /\ UNCHANGED nonMainVars

MainNext ==
    \/ ImportTables
    \/ GetProjectFile
    \/ OpenOutput
    \/ RunScan
    \/ RunCheck
    \/ Report
    \/ LogLine
    \/ StepRaises
    \/ HandleException
    \/ TryBlockEnds
    \/ Finish

SpecMain == MainInit /\ [][MainNext]_vars

NumApj == Len(ApjFiles(listing))

\* validation let the run into main's body
ValidationPassed ==
    \/ main_pc \in {"open", "steps", "except", "finish"}
    \/ main_pc = "exited" /\ exit_status = 0

\* the run ended at import or validation
ValidationFailed == main_pc = "exited" /\ exit_status # 0

CheckSteps == {i \in 1..NumSteps : MainSteps[i].kind = "check"}

Reported(c) == <<"finding", c>> \in Range(transcript)

\* C3: when a check module raises, the error is logged, every check module
\* after it still runs, and every finding computed before the failure is
\* reported by the end of the run.
C3_FailingCheckIsolated ==
    (main_pc = "exited" /\ exit_status = 0 /\ failing \in CheckSteps) =>
        /\ <<"error", MainSteps[failing].name>> \in Range(transcript)
        /\ \A j \in CheckSteps : j > failing => MainSteps[j].name \in ran
        /\ \A c \in computed : Reported(c)

\* C4: validation lets a run through only when the root holds exactly one
\* .apj file, and a run it stops has run no step.
C4_ExactlyOneDescriptor ==
    /\ ValidationPassed => NumApj = 1
    /\ ValidationFailed => ran = {} /\ computed = {}

\* C4 (amended): validation lets a run through when the root is a directory
\* holding at least one .apj file, taking the first one listed; it stops the
\* run only when there is none, and a run it stops has run no step.
C4_AtLeastOneDescriptor ==
    /\ ValidationPassed =>
          /\ path_kind = "dir" /\ NumApj >= 1
          /\ main_pc # "open" => apj_file = ApjFiles(listing)[1]
    /\ (tables_ok /\ path_kind = "dir" /\ NumApj >= 1) => ~ValidationFailed
    /\ ValidationFailed => ran = {} /\ computed = {}

C4_Witness ==
    /\ NumApj = 2 /\ validator = "get_project_file"
    /\ main_pc = "exited" /\ exit_status = 0 /\ ran # {}

BadRoot == path_kind = "missing" \/ path_kind = "file" \/ NumApj = 0

\* C5: with a project path that does not exist or holds no .apj file the
\* analyzer never starts a scan or a check; it can only go on to exit, and
\* it exits with a nonzero status.
C5_BadRootExitsBeforeChecks ==
    BadRoot =>
        /\ ran = {} /\ computed = {} /\ step = 1
        /\ main_pc \in {"import", "validate", "exited"}
        /\ main_pc = "exited" => exit_status # 0
        /\ main_pc # "exited" => ENABLED (ImportTables \/ GetProjectFile)

C5_Witness ==
    /\ tables_ok /\ path_kind = "dir" /\ NumApj = 0 /\ listing # <<>>
    /\ main_pc = "exited" /\ exit_status = 1

----------------------------------------------------------------------------
(* The per-file matchers.  A file is its bytes; read_file and the           *)
(* open(..., errors="ignore") of the analyzer decode them to text, dropping *)
(* the bytes that are not valid UTF-8.                                      *)

MaxTextLen == 4
MaxPartitions == 2
MaxLines == 2

FilePath == "Cfg1/file"
InvalidByte == "\\xff"

\* open(file_path, "r", encoding="utf-8", errors="ignore") ... f.read()
Decode(bytes) == SelectSeq(bytes, LAMBDA c : c # InvalidByte)

\* utils.read_file(path): the whole file as one str, decoded permissively
read_file(bytes) == Decode(bytes)

\* f.readlines(): the lines of the text, each with its line break
RECURSIVE ReadLines(_)
ReadLines(text) ==
    IF text = <<>> THEN <<>>
    ELSE LET n == RunNotIn(text, 1, {"\n"})
         IN IF n = Len(text) THEN <<text>>
            ELSE <<SubSeq(text, 1, n + 1)>> \o ReadLines(SubSeq(text, n + 2, Len(text)))

\* for line in content, content a str: its characters, one at a time
IterStr(text) == [i \in 1..Len(text) |-> <<text[i]>>]

\* regex \b at position p: between text[p-1] and text[p]
IsWordAt(text, k) == k >= 1 /\ k <= Len(text) /\ text[k] \in WordChars
WordBoundary(text, p) == IsWordAt(text, p - 1) # IsWordAt(text, p)

\* re.search(re.escape(pattern), content): the key anywhere in the text
SearchAnywhere(content, pattern) ==
    \E i \in 1..Len(content) : HasAt(content, i, pattern)

\* re.search(rf"\b{re.escape(pattern)}\b", content)
SearchWholeWord(content, pattern) ==
    \E i \in 1..Len(content) :
        /\ WordBoundary(content, i)
        /\ HasAt(content, i, pattern)
        /\ WordBoundary(content, i + Len(pattern))

RECURSIVE StCLoop(_, _, _, _, _)
StCLoop(pats, content, file_path, res, matched_files) ==
    IF pats = <<>> THEN res
    ELSE LET pattern == Head(pats)[1]
             reason == Head(pats)[2]
             hit == SearchWholeWord(content, pattern) /\ file_path \notin matched_files
         IN StCLoop(Tail(pats), content, file_path,
                    IF hit THEN Append(res, <<pattern, reason, file_path>>) ELSE res,
                    IF hit THEN matched_files \cup {file_path} ELSE matched_files)

\* deprecated_functions.process_st_c_file
process_st_c_file(file_path, bytes, patterns) ==
    StCLoop(patterns, read_file(bytes), file_path, <<>>, {})

\* analyzer.process_st_c_file: the same loop over f.read()
analyzer_process_st_c_file(file_path, bytes, patterns) ==
    StCLoop(patterns, Decode(bytes), file_path, <<>>, {})

KeyF == <<"f">>
KeyG == <<"g">>
KeyFG == <<"f", "g">>

StCTables ==
    {<< <<KeyF, "r1">> >>,
     << <<KeyF, "r1">>, <<KeyG, "r2">> >>,
     << <<KeyFG, "r3">>, <<KeyG, "r2">> >>}

StCTexts == SeqsUpTo({"f", "g", " ", "(", InvalidByte}, MaxTextLen)

\* The hardware descriptor as a sequence of lexical atoms: the literal parts of
\* the two regular expressions are one atom each.
ACT == "<Parameter ID=\"ActivateFtpServer\""
PART == "<Parameter ID=\"FTPMSPartition"
QUOTE == "\""
VAL == "Value=\""
END == "\" />"
SYSTEM == "SYSTEM"

NoMatch == [found |-> FALSE, group0 |-> <<>>, group1 |-> <<>>, stop |-> 0]

\* r'<Parameter ID="ActivateFtpServer"\s+Value="(\d)" />' matched at position i
ActivateAt(t, i) ==
    LET ws == RunIn(t, i + 1, SpaceChars)
        v == i + 1 + ws
    IN IF /\ HasAt(t, i, <<ACT>>)
          /\ ws >= 1
          /\ HasAt(t, v, <<VAL>>)
          /\ v + 2 <= Len(t)
          /\ t[v + 1] \in Digits
          /\ t[v + 2] = END
       THEN [found |-> TRUE, group0 |-> SubSeq(t, i, v + 2),
             group1 |-> <<t[v + 1]>>, stop |-> v + 2]
       ELSE NoMatch

\* re.search: the leftmost match
SearchActivate(t) ==
    IF \E i \in 1..Len(t) : ActivateAt(t, i).found
    THEN ActivateAt(t, CHOOSE i \in 1..Len(t) :
                          /\ ActivateAt(t, i).found
                          /\ \A j \in 1..(i - 1) : ~ActivateAt(t, j).found)
    ELSE NoMatch

\* r'<Parameter ID="FTPMSPartition\d+"\s+Value="(.*?)" />' matched at position i:
\* (.*?) is the shortest run without a line break that is followed by '" />'
PartitionAt(t, i) ==
    LET ds == RunIn(t, i + 1, Digits)
        q == i + 1 + ds
        ws == RunIn(t, q + 1, SpaceChars)
        v == q + 1 + ws
        len == RunNotIn(t, v + 1, {END, "\n"})
        e == v + 1 + len
    IN IF /\ HasAt(t, i, <<PART>>)
          /\ ds >= 1
          /\ HasAt(t, q, <<QUOTE>>)
          /\ ws >= 1
          /\ HasAt(t, v, <<VAL>>)
          /\ HasAt(t, e, <<END>>)
       THEN [found |-> TRUE, group0 |-> SubSeq(t, i, e),
             group1 |-> SubSeq(t, v + 1, e - 1), stop |-> e]
       ELSE NoMatch

\* re.findall: the groups of the non-overlapping matches, left to right
RECURSIVE FindAllPartitions(_, _)
FindAllPartitions(t, i) ==
    IF i > Len(t) THEN <<>>
    ELSE LET m == PartitionAt(t, i)
         IN IF m.found THEN <<m.group1>> \o FindAllPartitions(t, m.stop + 1)
            ELSE FindAllPartitions(t, i + 1)

\* file_device_check.py:45, as4_to_as6_analyzer.py:290: if not matches or matches.group(0) == "1"
FtpGuard(matches) == ~matches.found \/ matches.group0 = <<"1">>

\* The body both copies share: the set holds at most the one tuple
\* ("SYSTEM", file_path)
FtpResults(file_path, content) ==
    LET matches == SearchActivate(content)
        parts == FindAllPartitions(content, 1)
    IN IF FtpGuard(matches) /\ \E k \in 1..Len(parts) : parts[k] = <<SYSTEM>>
       THEN << <<SYSTEM, file_path>> >>
       ELSE <<>>

\* file_device_check.process_ftp_configurations
process_ftp_configurations(file_path, bytes) == FtpResults(file_path, read_file(bytes))

\* analyzer.process_ftp_configurations
analyzer_process_ftp_configurations(file_path, bytes) == FtpResults(file_path, Decode(bytes))

ActParam(d) == <<ACT, " ", VAL, d, END, "\n">>
PartParam(n, v) == <<PART, n, QUOTE, " ", VAL>> \o v \o <<END, "\n">>

FtpActivateOptions == {<<>>, ActParam("0"), ActParam("1"), ActParam("x")}
FtpValues == {<<SYSTEM>>, <<"USER">>, <<SYSTEM, "2">>}

RECURSIVE FtpPartitionLists(_)
FtpPartitionLists(n) ==
    IF n = 0 THEN {<<>>}
    ELSE LET fewer == FtpPartitionLists(n - 1)
         IN fewer \cup {PartParam("1", v) \o p : v \in FtpValues, p \in fewer}

FtpTexts ==
    {a \o p : a \in FtpActivateOptions, p \in FtpPartitionLists(MaxPartitions)}
    \cup {p \o a : a \in FtpActivateOptions, p \in FtpPartitionLists(MaxPartitions)}

HashInclude == <<"#", "i", "n", "c", "l", "u", "d", "e">>
DotH == <<".", "h">>

\* re.compile(r'#include\s+[<"]([^">]+)[">]') matched at position i of line
IncludeAt(line, i) ==
    LET ws == RunIn(line, i + Len(HashInclude), SpaceChars)
        d == i + Len(HashInclude) + ws
        len == RunNotIn(line, d + 1, {"\"", ">"})
        c == d + 1 + len
    IN IF /\ HasAt(line, i, HashInclude)
          /\ ws >= 1
          /\ d <= Len(line)
          /\ line[d] \in {"<", "\""}
          /\ len >= 1
          /\ c <= Len(line)
       THEN [found |-> TRUE, group0 |-> SubSeq(line, i, c),
             group1 |-> SubSeq(line, d + 1, c - 1), stop |-> c]
       ELSE NoMatch

\* include_pattern.search(line)
SearchInclude(line) ==
    IF \E i \in 1..Len(line) : IncludeAt(line, i).found
    THEN IncludeAt(line, CHOOSE i \in 1..Len(line) :
                            /\ IncludeAt(line, i).found
                            /\ \A j \in 1..(i - 1) : ~IncludeAt(line, j).found)
    ELSE NoMatch

\* for pattern, reason in patterns.items(): if included_library == f"{pattern.lower()}.h"
RECURSIVE IncludeRules(_, _, _)
IncludeRules(included_library, pats, file_path) ==
    IF pats = <<>> THEN <<>>
    ELSE (IF included_library = Lower(Head(pats)[1]) \o DotH
          THEN << <<Head(pats)[1], Head(pats)[2], file_path>> >> ELSE <<>>)
         \o IncludeRules(included_library, Tail(pats), file_path)

\* the loop over the lines, shared by the two definitions
RECURSIVE IncludesOver(_, _, _)
IncludesOver(lines, pats, file_path) ==
    IF lines = <<>> THEN <<>>
    ELSE LET match == SearchInclude(Head(lines))
         IN (IF match.found
             THEN IncludeRules(Lower(match.group1), pats, file_path) ELSE <<>>)
            \o IncludesOver(Tail(lines), pats, file_path)

\* library_check.process_c_cpp_hpp_includes_file: content = utils.read_file(...);
\* for line in content
process_c_cpp_hpp_includes_file(file_path, bytes, patterns) ==
    IncludesOver(IterStr(read_file(bytes)), patterns, file_path)

\* analyzer.process_c_cpp_hpp_includes_file: content = f.readlines()
analyzer_process_c_cpp_hpp_includes_file(file_path, bytes, patterns) ==
    IncludesOver(ReadLines(Decode(bytes)), patterns, file_path)

KeyA == <<"a">>
KeyB == <<"B">>
IncludeTables ==
    {<< <<KeyA, "r1">> >>, << <<KeyA, "r1">>, <<KeyB, "r2">> >>}

Inc(open, target, close) == HashInclude \o <<" ", open>> \o target \o <<close, "\n">>

IncludeLines ==
    {Inc("<", <<"a", ".", "h">>, ">"),
     Inc("\"", <<"A", ".", "H">>, "\""),
     Inc("<", <<"b", ".", "h">>, ">"),
     Inc("<", <<"a", ".", "h", "h">>, ">"),
     HashInclude \o <<"<", "a", ".", "h", ">", "\n">>,
     <<"x", "=", "a", ".", "h", ";", "\n">>}

RECURSIVE IncludeTexts(_)
IncludeTexts(n) ==
    IF n = 0 THEN {<<>>}
    ELSE LET fewer == IncludeTexts(n - 1)
         IN fewer \cup {l \o t : l \in IncludeLines, t \in fewer}

MatcherInputs(fn) ==
    CASE fn = "process_st_c_file" -> StCTexts \X StCTables
      [] fn = "analyzer.process_st_c_file" -> StCTexts \X StCTables
      [] fn = "process_ftp_configurations" -> FtpTexts \X {<<>>}
      [] fn = "analyzer.process_ftp_configurations" -> FtpTexts \X {<<>>}
      [] fn = "process_c_cpp_hpp_includes_file" -> IncludeTexts(MaxLines) \X IncludeTables
      [] fn = "analyzer.process_c_cpp_hpp_includes_file" -> IncludeTexts(MaxLines) \X IncludeTables

MatcherNames ==
    {"process_st_c_file", "analyzer.process_st_c_file",
     "process_ftp_configurations", "analyzer.process_ftp_configurations",
     "process_c_cpp_hpp_includes_file", "analyzer.process_c_cpp_hpp_includes_file"}

MatchInit ==
    /\ m_fn \in MatcherNames
    /\ \E input \in MatcherInputs(m_fn) : m_text = input[1] /\ m_table = input[2]
    /\ m_out = <<>>
    /\ m_pc = "call"
    /\ ScanIdle
    /\ MainIdle
    /\ LibIdle
    /\ CompatIdle
    /\ LogIdle
    /\ GroupIdle
    /\ TwiceIdle
    /\ MappIdle
    /\ RunIdle
    /\ SafetyIdle
    /\ SceneIdle
    /\ UpdateIdle

Returns(fn, out) ==
    /\ m_pc = "call"
    /\ m_fn = fn
    /\ m_out' = out
    /\ m_pc' = "done"
    /\ UNCHANGED <<m_fn, m_text, m_table>>
    /\ UNCHANGED nonMatchVars

CallStC == Returns("process_st_c_file", process_st_c_file(FilePath, m_text, m_table))

CallStCAnalyzer ==
    Returns("analyzer.process_st_c_file", analyzer_process_st_c_file(FilePath, m_text, m_table))

CallFtpAnalyzer ==
    Returns("analyzer.process_ftp_configurations",
            analyzer_process_ftp_configurations(FilePath, m_text))

CallFtp == Returns("process_ftp_configurations", process_ftp_configurations(FilePath, m_text))

CallIncludes ==
    Returns("process_c_cpp_hpp_includes_file",
            process_c_cpp_hpp_includes_file(FilePath, m_text, m_table))

CallIncludesAnalyzer ==
    Returns("analyzer.process_c_cpp_hpp_includes_file",
            analyzer_process_c_cpp_hpp_includes_file(FilePath, m_text, m_table))

MatchNext ==
    \/ CallStC
    \/ CallStCAnalyzer
    \/ CallFtp
    \/ CallFtpAnalyzer
    \/ CallIncludes
    \/ CallIncludesAnalyzer

SpecMatch == MatchInit /\ [][MatchNext]_vars

Returned(fn) == m_pc = "done" /\ m_fn = fn

Count(out, x) == Cardinality({j \in 1..Len(out) : out[j] = x})

\* C8: process_st_c_file returns exactly one finding for every rule key that
\* occurs as a whole word in the file and none for the other keys, so k keys
\* present give k findings.
C8_OneFindingPerKey ==
    (Returned("process_st_c_file") \/ Returned("analyzer.process_st_c_file")) =>
        /\ \A i \in 1..Len(m_table) :
              Count(m_out, <<m_table[i][1], m_table[i][2], FilePath>>)
                = IF SearchWholeWord(Decode(m_text), m_table[i][1]) THEN 1 ELSE 0
        /\ Len(m_out) = Cardinality({i \in 1..Len(m_table) :
                                       SearchWholeWord(Decode(m_text), m_table[i][1])})

\* The FTP server is active: the ActivateFtpServer parameter has Value "1"
FtpActive(content) == SearchActivate(content).found /\ SearchActivate(content).group1 = <<"1">>

\* C9: with the FTP server active, process_ftp_configurations returns a finding
\* for every FTPMSPartition parameter whose value is exactly SYSTEM.
C9_SystemPartitionFlaggedWhenActive ==
    ((Returned("process_ftp_configurations") \/ Returned("analyzer.process_ftp_configurations"))
        /\ FtpActive(Decode(m_text))) =>
        \A v \in Range(FindAllPartitions(Decode(m_text), 1)) :
            v = <<SYSTEM>> => <<SYSTEM, FilePath>> \in Range(m_out)

\* The line holds #include <X> or #include "X" with X, lowercased, equal to target
HoldsIncludeOf(line, target) ==
    \E i, d, c \in 1..Len(line) :
        /\ HasAt(line, i, HashInclude)
        /\ d > i + Len(HashInclude)
        /\ \A k \in (i + Len(HashInclude))..(d - 1) : line[k] \in SpaceChars
        /\ line[d] \in {"<", "\""}
        /\ c > d + 1
        /\ line[c] \in {">", "\""}
        /\ \A k \in (d + 1)..(c - 1) : line[k] \notin {">", "\""}
        /\ Lower(SubSeq(line, d + 1, c - 1)) = target

\* The findings one line owes: one per rule key, in the table's order
DirectiveFindings(line, table) ==
    LET owed == SelectSeq(table, LAMBDA r : HoldsIncludeOf(line, Lower(r[1]) \o DotH))
    IN [k \in 1..Len(owed) |-> <<owed[k][1], owed[k][2], FilePath>>]

\* C10: process_c_cpp_hpp_includes_file returns (key, reason, file) for every
\* line of the file holding an include directive whose target, lowercased, is a
\* rule key lowercased plus ".h", and nothing for the other lines.
C10_IncludeFindingPerLine ==
    (Returned("process_c_cpp_hpp_includes_file")
        \/ Returned("analyzer.process_c_cpp_hpp_includes_file")) =>
        m_out = Flatten([l \in 1..Len(ReadLines(Decode(m_text))) |->
                    DirectiveFindings(ReadLines(Decode(m_text))[l], m_table)])

----------------------------------------------------------------------------
(* library_check: the package matchers and check_libraries *)

MaxElements == 2

\* r">([^<]+)<" matched at position i: [^<]+ takes every character up to the next "<"
ElementTextAt(t, i) ==
    LET len == RunNotIn(t, i + 1, {"<"})
        e == i + 1 + len
    IN IF HasAt(t, i, <<">">>) /\ len >= 1 /\ e <= Len(t)
       THEN [found |-> TRUE, group0 |-> SubSeq(t, i, e),
             group1 |-> SubSeq(t, i + 1, e - 1), stop |-> e]
       ELSE NoMatch

\* re.findall(r">([^<]+)<", content, re.IGNORECASE)
RECURSIVE FindAllElementText(_, _)
FindAllElementText(t, i) ==
    IF i > Len(t) THEN <<>>
    ELSE LET m == ElementTextAt(t, i)
         IN IF m.found THEN <<m.group1>> \o FindAllElementText(t, m.stop + 1)
            ELSE FindAllElementText(t, i + 1)

\* The comparison without .lower(): if match == pattern
RECURSIVE PkgRulesCaseSensitive(_, _, _)
PkgRulesCaseSensitive(match, pats, file_path) ==
    IF pats = <<>> THEN <<>>
    ELSE (IF match = Head(pats)[1]
          THEN << <<Head(pats)[1], Head(pats)[2], file_path>> >> ELSE <<>>)
         \o PkgRulesCaseSensitive(match, Tail(pats), file_path)

\* for pattern, reason in patterns.items(): if match.lower() == pattern.lower()
RECURSIVE PkgRules(_, _, _)
PkgRules(match, pats, file_path) ==
    IF pats = <<>> THEN <<>>
    ELSE (IF Lower(match) = Lower(Head(pats)[1])
          THEN << <<Head(pats)[1], Head(pats)[2], file_path>> >> ELSE <<>>)
         \o PkgRules(match, Tail(pats), file_path)

RECURSIVE PkgLoop(_, _, _)
PkgLoop(matches, pats, file_path) ==
    IF matches = <<>> THEN <<>>
    ELSE PkgRules(Head(matches), pats, file_path) \o PkgLoop(Tail(matches), pats, file_path)

\* library_check.process_pkg_file (analyzer.process_pkg_file is the same loop)
process_pkg_file(file_path, bytes, patterns) ==
    PkgLoop(FindAllElementText(read_file(bytes), 1), patterns, file_path)

\* library_check.process_manual_libraries: the same expression and comparison
process_manual_libraries(file_path, bytes, patterns) ==
    PkgLoop(FindAllElementText(read_file(bytes), 1), patterns, file_path)

PkgPath == "Logical/Libraries/Package.pkg"
CPath == "Logical/Prog/main.c"

\* The rule tables the JSON documents hold
ObsoleteLibs == << <<KeyA, "r1">>, <<KeyB, "r2">> >>
ManualLibs == << <<<<"x">>, "act">> >>

Element(name) == <<"<", "o", ">">> \o name \o <<"<", "/", "o", ">">>
LibraryNames == {<<"a">>, <<"A">>, <<"b">>, <<"x">>, <<"a", "b">>}

RECURSIVE PkgTexts(_)
PkgTexts(n) ==
    IF n = 0 THEN {<<>>}
    ELSE LET fewer == PkgTexts(n - 1)
         IN fewer \cup {Element(l) \o t : l \in LibraryNames, t \in fewer}

CTexts == {<<>>, Inc("<", <<"a", ".", "h">>, ">"), Inc("\"", <<"b", ".", "h">>, "\"")}

LibInit ==
    /\ load_ok \in [{"manual_process_libs", "obsolete_libs"} -> BOOLEAN]
    /\ verbose \in BOOLEAN
    /\ pkg_bytes \in PkgTexts(MaxElements)
    /\ c_bytes \in CTexts
    /\ manual_process_libraries = <<>>
    /\ obsolete_dict = <<>>
    /\ manual_libs_results = <<>>
    /\ invalid_pkg_files = <<>>
    /\ lby_dependency_results = <<>>
    /\ c_include_dependency_results = <<>>
    /\ lib_log = <<>>
    /\ load_failed = {}
    /\ scanned_with = {}
    /\ lib_pc = "load_manual"
    /\ ScanIdle
    /\ MainIdle
    /\ MatchIdle
    /\ CompatIdle
    /\ LogIdle
    /\ GroupIdle
    /\ TwiceIdle
    /\ MappIdle
    /\ RunIdle
    /\ SafetyIdle
    /\ SceneIdle
    /\ UpdateIdle

TextLine(sev, when, text) ==
    [kind |-> "text", severity |-> sev, when |-> when, text |-> text, finding |-> <<>>]
FindingLine(f) ==
    [kind |-> "finding", severity |-> "", when |-> "", text |-> "", finding |-> f]

\* utils.load_file_info: the document, or on any exception an ERROR line and {}
load_file_info(ok, document, filename) ==
    IF ok THEN [value |-> document, logged |-> <<>>]
    ELSE [value |-> <<>>,
          logged |-> <<TextLine("ERROR", "", "Error loading JSON file")>>]

\* library_check.py:108-110
LoadManual ==
    /\ lib_pc = "load_manual"
    /\ LET r == load_file_info(load_ok["manual_process_libs"], ManualLibs, "manual_process_libs")
       IN /\ manual_process_libraries' = r.value
          /\ lib_log' = <<TextLine("", "", "Checking for invalid libraries and dependencies...")>>
                        \o r.logged
          /\ load_failed' = IF load_ok["manual_process_libs"] THEN load_failed
                            ELSE load_failed \cup {"manual_process_libs"}
    /\ lib_pc' = "scan_manual"
    /\ UNCHANGED <<libInputs, obsolete_dict, manual_libs_results, invalid_pkg_files,
                   lby_dependency_results, c_include_dependency_results, scanned_with>>
    /\ UNCHANGED nonLibVars

\* library_check.py:111-116
ScanManual ==
    /\ lib_pc = "scan_manual"
    /\ manual_libs_results' = process_manual_libraries(PkgPath, pkg_bytes, manual_process_libraries)
    /\ scanned_with' = scanned_with \cup {"manual_process_libs"}
    /\ lib_pc' = "load_obsolete"
    /\ UNCHANGED <<libInputs, manual_process_libraries, obsolete_dict, invalid_pkg_files,
                   lby_dependency_results, c_include_dependency_results, lib_log, load_failed>>
    /\ UNCHANGED nonLibVars

\* library_check.py:118
LoadObsolete ==
    /\ lib_pc = "load_obsolete"
    /\ LET r == load_file_info(load_ok["obsolete_libs"], ObsoleteLibs, "obsolete_libs")
       IN /\ obsolete_dict' = r.value
          /\ lib_log' = lib_log \o r.logged
          /\ load_failed' = IF load_ok["obsolete_libs"] THEN load_failed
                            ELSE load_failed \cup {"obsolete_libs"}
    /\ lib_pc' = "scan_pkg"
    /\ UNCHANGED <<libInputs, manual_process_libraries, manual_libs_results, invalid_pkg_files,
                   lby_dependency_results, c_include_dependency_results, scanned_with>>
    /\ UNCHANGED nonLibVars

\* library_check.py:119-124
ScanPkg ==
    /\ lib_pc = "scan_pkg"
    /\ invalid_pkg_files' = process_pkg_file(PkgPath, pkg_bytes, obsolete_dict)
    /\ scanned_with' = scanned_with \cup {"obsolete_libs"}
    /\ lib_pc' = "scan_deps"
    /\ UNCHANGED <<libInputs, manual_process_libraries, obsolete_dict, manual_libs_results,
                   lby_dependency_results, c_include_dependency_results, lib_log, load_failed>>
    /\ UNCHANGED nonLibVars

\* library_check.py:126-138: the project holds no .lby file
ScanDependencies ==
    /\ lib_pc = "scan_deps"
    /\ lby_dependency_results' = <<>>
    /\ c_include_dependency_results' =
          process_c_cpp_hpp_includes_file(CPath, c_bytes, obsolete_dict)
    /\ lib_pc' = "report"
    /\ UNCHANGED <<libInputs, manual_process_libraries, obsolete_dict, manual_libs_results,
                   invalid_pkg_files, lib_log, load_failed, scanned_with>>
    /\ UNCHANGED nonLibVars

FindingLinesOf(found) == [i \in 1..Len(found) |-> FindingLine(found[i])]

\* if found: log(header, when, severity); one line per entry; else INFO when verbose
ReportSection(found, sev, header, none) ==
    IF found # <<>>
    THEN <<TextLine(sev, "AS6", header)>> \o FindingLinesOf(found)
    ELSE IF verbose THEN <<TextLine("INFO", "", none)>> ELSE <<>>

\* library_check.py:140-189
ReportLibraries ==
    /\ lib_pc = "report"
    /\ lib_log' = lib_log
          \o ReportSection(invalid_pkg_files, "MANDATORY",
                "The following invalid libraries were found in .pkg files:",
                "No invalid libraries found in .pkg files.")
          \o ReportSection(manual_libs_results, "WARNING",
                "The following libraries might require manual action",
                "No libraries requiring manual action found in .pkg files.")
          \o ReportSection(lby_dependency_results \o c_include_dependency_results, "MANDATORY",
                "The following obsolete dependencies were found",
                "No obsolete dependencies found")
    /\ lib_pc' = "done"
    /\ UNCHANGED <<libInputs, manual_process_libraries, obsolete_dict, manual_libs_results,
                   invalid_pkg_files, lby_dependency_results, c_include_dependency_results,
                   load_failed, scanned_with>>
    /\ UNCHANGED nonLibVars

LibNext ==
    \/ LoadManual
    \/ ScanManual
    \/ LoadObsolete
    \/ ScanPkg
    \/ ScanDependencies
    \/ ReportLibraries

SpecLib == LibInit /\ [][LibNext]_vars

\* C6: a rule table that cannot be loaded ends the process with a nonzero
\* status: the analyzer exits at import without running a step, and a check
\* module neither scans with the table of a failed load nor completes.
C6_LoadFailureIsFatal ==
    /\ (main_pc \notin {"idle", "import"} /\ ~tables_ok) =>
          main_pc = "exited" /\ exit_status # 0 /\ ran = {}
    /\ load_failed \cap scanned_with = {}
    /\ lib_pc = "done" => load_failed = {}

\* The finding lines logged under the header of one rule table
SectionOf(header) ==
    LET h == {i \in 1..Len(lib_log) : lib_log[i].text = header}
    IN IF h = {} THEN <<>>
       ELSE LET first == CHOOSE i \in h : TRUE
                n == RunIn([k \in 1..Len(lib_log) |-> lib_log[k].kind], first + 1, {"finding"})
            IN SubSeq(lib_log, first + 1, first + n)

\* C7: in the report of one rule table no (pattern, reason, file) is logged twice.
C7_NoDuplicateReportLines ==
    lib_pc = "done" =>
        LET lines == SectionOf("The following invalid libraries were found in .pkg files:")
        IN \A i, j \in 1..Len(lines) : lines[i] = lines[j] => i = j

----------------------------------------------------------------------------
(* file_compatibility: check_file_version and check_files_for_compatibility. *)
(* A descriptor is a sequence of atoms: the literal parts of version_pattern *)
(* are one atom each, everything else is one character.                      *)

MaxHw == 2

AS == "AutomationStudio "
WORKING == "Working"
VEQ == "Version="
VersionChars == Digits \cup {"."}
RequiredVersionPrefix == <<"4", ".", "1", "2">>
VersionUnknown == <<"Version", " ", "Unknown">>

\* str.startswith
StartsWith(t, prefix) == HasAt(t, 1, prefix)

\* version_pattern = r'AutomationStudio (?:Working)?Version="?([\d.]+)' matched at i
VersionAt(t, i) ==
    LET w == IF HasAt(t, i + 1, <<WORKING>>) THEN 1 ELSE 0
        q == IF HasAt(t, i + 2 + w, <<QUOTE>>) THEN 1 ELSE 0
        d == i + 2 + w + q
        len == RunIn(t, d, VersionChars)
    IN IF HasAt(t, i, <<AS>>) /\ HasAt(t, i + 1 + w, <<VEQ>>) /\ len >= 1
       THEN [found |-> TRUE, group0 |-> SubSeq(t, i, d + len - 1),
             group1 |-> SubSeq(t, d, d + len - 1), stop |-> d + len - 1]
       ELSE NoMatch

\* version_pattern.search(content)
SearchVersion(t) ==
    IF \E i \in 1..Len(t) : VersionAt(t, i).found
    THEN VersionAt(t, CHOOSE i \in 1..Len(t) :
                         /\ VersionAt(t, i).found
                         /\ \A j \in 1..(i - 1) : ~VersionAt(t, j).found)
    ELSE NoMatch

\* check_file_version mutated: the found version is prefixed like the unknown one
CheckFileVersionPrefixed(file_path, bytes) ==
    LET version_match == SearchVersion(read_file(bytes))
    IN IF version_match.found
       THEN IF StartsWith(version_match.group1, RequiredVersionPrefix) THEN <<>>
            ELSE << <<file_path, <<"Version", " ">> \o version_match.group1>> >>
       ELSE << <<file_path, VersionUnknown>> >>

\* file_compatibility.check_file_version: the set holds at most one tuple
check_file_version(file_path, bytes) ==
    LET version_match == SearchVersion(read_file(bytes))
    IN IF version_match.found
       THEN IF StartsWith(version_match.group1, RequiredVersionPrefix) THEN <<>>
            ELSE << <<file_path, version_match.group1>> >>
       ELSE << <<file_path, VersionUnknown>> >>

VersionAttr(head, q, v) == head \o q \o v \o q \o <<" ", "\n">>

VersionStrings ==
    {<<"4", ".", "1", "2">>, <<"4", ".", "1", "2", ".", "3">>, <<"4", ".", "1", "1", ".", "0">>,
     <<"4", ".", "1">>, <<"6", ".", "0">>, <<"1", "4", ".", "1", "2">>}

\* Descriptors with a version, with a working version, unquoted, with none,
\* with an empty one, and with two
VersionTexts ==
    {VersionAttr(<<AS, VEQ>>, <<QUOTE>>, v) : v \in VersionStrings}
    \cup {VersionAttr(<<"x", AS, WORKING, VEQ>>, <<QUOTE>>, v) : v \in VersionStrings}
    \cup {VersionAttr(<<AS, VEQ>>, <<>>, v) : v \in VersionStrings}
    \cup {<<>>, <<"x", "\n">>, <<AS, VEQ, QUOTE, QUOTE>>, <<VEQ, QUOTE, "4", ".", "1", "2", QUOTE>>,
          <<AS, VEQ, QUOTE, "4", ".", "1", "1", QUOTE, "\n", AS, VEQ, QUOTE, "4", ".", "1", "2", QUOTE>>,
          <<InvalidByte, AS, InvalidByte, VEQ, QUOTE, "6", QUOTE>>}

HwTexts ==
    {VersionAttr(<<AS, VEQ>>, <<QUOTE>>, <<"4", ".", "1", "2">>),
     VersionAttr(<<AS, VEQ>>, <<QUOTE>>, <<"4", ".", "1", "0">>),
     <<"x", "\n">>}

ApjPath == "proj/P.apj"
HwPath(i) == IF i = 1 THEN "proj/Physical/C1/Hardware.hw" ELSE "proj/Physical/C2/Hardware.hw"
PkgFilePath == "proj/Physical/C1/Package.pkg"

\* A .pkg path under Physical: whether a directory of the path is named
\* mappView, whether it is a file, whether it parses as XML, and whether an
\* element has Type="File" and Reference="true"
PkgEntries ==
    {[mappView |-> FALSE, is_file |-> TRUE, parses |-> TRUE, reference |-> TRUE],
     [mappView |-> TRUE, is_file |-> TRUE, parses |-> TRUE, reference |-> TRUE],
     [mappView |-> FALSE, is_file |-> TRUE, parses |-> FALSE, reference |-> FALSE],
     [mappView |-> FALSE, is_file |-> TRUE, parses |-> TRUE, reference |-> FALSE],
     [mappView |-> FALSE, is_file |-> FALSE, parses |-> FALSE, reference |-> FALSE]}

Orders(n) == {f \in [1..n -> 1..n] : \A i, j \in 1..n : f[i] = f[j] => i = j}

CompatInit ==
    /\ compat_apj \in VersionTexts
    /\ compat_hw \in SeqsUpTo(HwTexts, MaxHw)
    /\ compat_done \in Orders(Len(compat_hw))
    /\ compat_pkgs \in SeqsUpTo(PkgEntries, 1)
    /\ compat_verbose \in BOOLEAN
    /\ compat_results = <<>>
    /\ compat_refs = <<>>
    /\ compat_log = <<>>
    /\ compat_pc = "start"
    /\ ScanIdle
    /\ MainIdle
    /\ MatchIdle
    /\ LibIdle
    /\ LogIdle
    /\ GroupIdle
    /\ TwiceIdle
    /\ MappIdle
    /\ RunIdle
    /\ SafetyIdle
    /\ SceneIdle
    /\ UpdateIdle

LogCall(severity, message) == [severity |-> severity, message |-> message]

\* file_compatibility.py:34
CompatStart ==
    /\ compat_pc = "start"
    /\ compat_log' = <<LogCall("", <<"Checking project and hardware files for compatibility...">>)>>
    /\ compat_pc' = "scan_apj"
    /\ UNCHANGED <<compat_apj, compat_hw, compat_done, compat_pkgs, compat_verbose,
                   compat_results, compat_refs>>
    /\ UNCHANGED nonCompatVars

\* file_compatibility.py:39
CompatScanApj ==
    /\ compat_pc = "scan_apj"
    /\ compat_results' = check_file_version(ApjPath, compat_apj)
    /\ compat_pc' = "scan_hw"
    /\ UNCHANGED <<compat_apj, compat_hw, compat_done, compat_pkgs, compat_verbose,
                   compat_refs, compat_log>>
    /\ UNCHANGED nonCompatVars

\* utils.scan_files_parallel over the .hw files: the per-file results are
\* appended in the order the jobs complete
HwResults(hw, done) ==
    Flatten([k \in 1..Len(hw) |-> check_file_version(HwPath(done[k]), hw[done[k]])])

\* file_compatibility.py:40
CompatScanHw ==
    /\ compat_pc = "scan_hw"
    /\ compat_results' = compat_results \o HwResults(compat_hw, compat_done)
    /\ compat_pc' = "report"
    /\ UNCHANGED <<compat_apj, compat_hw, compat_done, compat_pkgs, compat_verbose,
                   compat_refs, compat_log>>
    /\ UNCHANGED nonCompatVars

HeaderText == "The following files are incompatible with the required version:"
AdviceText == "Please ensure these files are saved at least once with Automation Studio 4.12"

\* output += f"\n- {file_path}: {version}" ... output[1:]
RECURSIVE OutputOf(_)
OutputOf(found) ==
    IF found = <<>> THEN <<>>
    ELSE <<"\n", "- ", Head(found)[1], ": ">> \o Head(found)[2] \o OutputOf(Tail(found))

\* VersionReport mutated: the finding lines are logged before the header
VersionReportFindingsFirst(found, verb) ==
    IF found # <<>>
    THEN <<LogCall("", Tail(OutputOf(found))),
           LogCall("MANDATORY", <<HeaderText>>),
           LogCall("MANDATORY", <<AdviceText>>)>>
    ELSE IF verb THEN <<LogCall("VERBOSE", <<"All project and hardware files are valid.">>)>>
         ELSE <<>>

\* file_compatibility.py:41-56: the calls of log
VersionReport(found, verb) ==
    IF found # <<>>
    THEN <<LogCall("MANDATORY", <<HeaderText>>),
           LogCall("", Tail(OutputOf(found))),
           LogCall("MANDATORY", <<AdviceText>>)>>
    ELSE IF verb THEN <<LogCall("VERBOSE", <<"All project and hardware files are valid.">>)>>
         ELSE <<>>

CompatReport ==
    /\ compat_pc = "report"
    /\ compat_log' = compat_log \o VersionReport(compat_results, compat_verbose)
    /\ compat_pc' = "references"
    /\ UNCHANGED <<compat_apj, compat_hw, compat_done, compat_pkgs, compat_verbose,
                   compat_results, compat_refs>>
    /\ UNCHANGED nonCompatVars

\* file_compatibility.py:59-83
ReferenceFiles(pkgs) ==
    LET kept == SelectSeq(pkgs, LAMBDA e :
                    ~e.mappView /\ e.is_file /\ e.parses /\ e.reference)
    IN [k \in 1..Len(kept) |-> PkgFilePath]

\* file_compatibility.py:59-94
CompatReferences ==
    /\ compat_pc = "references"
    /\ compat_refs' = ReferenceFiles(compat_pkgs)
    /\ compat_log' = compat_log \o
          (IF ReferenceFiles(compat_pkgs) # <<>>
           THEN <<LogCall("WARNING", <<"Some files are converted to a new format in AS6.">>),
                  LogCall("", Tail(Flatten([k \in 1..Len(ReferenceFiles(compat_pkgs)) |->
                                              <<"\n", "- ", ReferenceFiles(compat_pkgs)[k]>>])))>>
           ELSE <<>>)
    /\ compat_pc' = "done"
    /\ UNCHANGED <<compat_apj, compat_hw, compat_done, compat_pkgs, compat_verbose,
                   compat_results>>
    /\ UNCHANGED nonCompatVars

CompatNext ==
    \/ CompatStart
    \/ CompatScanApj
    \/ CompatScanHw
    \/ CompatReport
    \/ CompatReferences

SpecCompat == CompatInit /\ [][CompatNext]_vars

\* t occurs in s as a contiguous part
Contains(s0, t) == \E i \in 1..(Len(s0) + 1) : HasAt(s0, i, t)

ApjScanned == compat_pc \in {"scan_hw", "report", "references", "done"}
ApjFindings == SelectSeq(compat_results, LAMBDA r : r[1] = ApjPath)
ApjVersion == SearchVersion(Decode(compat_apj))
ApjOutdated == ApjVersion.found /\ ~StartsWith(ApjVersion.group1, RequiredVersionPrefix)

HeaderCalls == {i \in 1..Len(compat_log) : compat_log[i].message = <<HeaderText>>}
FindingCalls ==
    {i \in 1..Len(compat_log) :
        \E k \in 1..Len(compat_results) :
            Contains(compat_log[i].message,
                     <<"- ", compat_results[k][1], ": ">> \o compat_results[k][2])}

\* C16: no finding line is logged before both scans have completed; the
\* summary header is logged at most once, before every finding line, and it
\* is logged exactly when some file is incompatible.
C16_BatchThenReport ==
    /\ compat_pc \in {"start", "scan_apj", "scan_hw", "report"} =>
          HeaderCalls = {} /\ FindingCalls = {}
    /\ Cardinality(HeaderCalls) <= 1
    /\ \A h \in HeaderCalls, f \in FindingCalls : h < f
    /\ FindingCalls # {} => HeaderCalls # {}
    /\ compat_pc \in {"references", "done"} =>
          /\ (HeaderCalls # {}) = (compat_results # <<>>)
          /\ \A k \in 1..Len(compat_results) :
                \E i \in FindingCalls :
                    Contains(compat_log[i].message,
                             <<"- ", compat_results[k][1], ": ">> \o compat_results[k][2])

C16_Witness ==
    /\ compat_pc = "done" /\ Len(compat_results) >= 2
    /\ Cardinality(HeaderCalls) = 1 /\ FindingCalls # {}

----------------------------------------------------------------------------
(* utils.log and utils.linkify.  A message is a sequence of atoms: a URL, a *)
(* key of the links document, an ANSI styling sequence and any other word   *)
(* are one atom each.                                                       *)

MaxMessageLen == 3

RESET == "\\x1b[0m"
MANDATORY == "\\x1b[1;31m"
WARNING == "\\x1b[1;33m"
INFO == "\\x1b[92m"
UNDERLINE == "\\x1b[4;94m"
AnsiSequences == {RESET, MANDATORY, WARNING, INFO, UNDERLINE}

UrlAtoms == {"https://www.br-automation.com/x"}
LinkKeys == <<"AS6 Help">>
MessageAtoms == UrlAtoms \cup Range(LinkKeys) \cup {"text", " "}

\* utils.url
url(text) == <<UNDERLINE>> \o text \o <<RESET>>

\* utils.extract_urls: re.findall(url_pattern, text)
extract_urls(text) == SelectSeq(text, LAMBDA a : a \in UrlAtoms)

\* str.replace(old, new) for a one-atom old
Replace(text, old, new) ==
    Flatten([i \in 1..Len(text) |-> IF text[i] = old THEN new ELSE <<text[i]>>])

\* for x in items: text = text.replace(x, url(x))
RECURSIVE ReplaceEach(_, _)
ReplaceEach(text, items) ==
    IF items = <<>> THEN text
    ELSE ReplaceEach(Replace(text, Head(items), url(<<Head(items)>>)), Tail(items))

\* utils.linkify
linkify(text, links) ==
    LET linked == ReplaceEach(text, links)
    IN ReplaceEach(linked, extract_urls(linked))

\* severity.upper()
Upper(severity) == IF severity = "mandatory" THEN "MANDATORY" ELSE severity

\* utils.log: what is printed and what is written to log_file
log(message0, when, severity, links) ==
    LET linked == linkify(message0, links)
        message == IF when # "" THEN <<"[", when, "]", " ">> \o linked ELSE linked
        colored_severity ==
            IF Upper(severity) \in {"MANDATORY", "ERROR"}
            THEN <<MANDATORY, "[", severity, "]", RESET>>
            ELSE IF Upper(severity) = "WARNING" THEN <<WARNING, "[", severity, "]", RESET>>
            ELSE IF Upper(severity) = "INFO" THEN <<INFO, "[", severity, "]", RESET>>
            ELSE <<"[", severity, "]">>
        console_message == IF severity # "" THEN colored_severity \o <<" ">> \o message
                           ELSE message
        file_message == IF severity # "" THEN <<"[", severity, "]", " ">> \o message
                        ELSE message
    IN [console |-> <<"\n">> \o console_message, file |-> file_message \o <<"\n">>]

LogInit ==
    /\ log_args \in [message : SeqsUpTo(MessageAtoms, MaxMessageLen),
                     when : {"", "AS6"},
                     severity : {"", "MANDATORY", "mandatory", "ERROR", "WARNING", "INFO", "VERBOSE"},
                     links : {<<>>, LinkKeys}]
    /\ log_console = <<>>
    /\ log_written = <<>>
    /\ log_pc = "call"
    /\ ScanIdle
    /\ MainIdle
    /\ MatchIdle
    /\ LibIdle
    /\ CompatIdle
    /\ GroupIdle
    /\ TwiceIdle
    /\ MappIdle
    /\ RunIdle
    /\ SafetyIdle
    /\ SceneIdle
    /\ UpdateIdle

LogCallReturns ==
    /\ log_pc = "call"
    /\ LET r == log(log_args.message, log_args.when, log_args.severity, log_args.links)
       IN log_console' = r.console /\ log_written' = r.file
    /\ log_pc' = "done"
    /\ UNCHANGED log_args
    /\ UNCHANGED nonLogVars

LogNext == LogCallReturns

SpecLog == LogInit /\ [][LogNext]_vars

Unstyled(t) == SelectSeq(t, LAMBDA a : a \notin AnsiSequences /\ a # "\n")
Tag(x) == IF x = "" THEN <<>> ELSE <<"[", x, "]", " ">>

\* C12: the line written to the transcript is the printed line without its
\* styling: it holds the severity and the when as literal [TAG] prefixes and
\* the message, and no ANSI sequence, whatever the message contains.
C12_TranscriptIsUnstyledTwin ==
    log_pc = "done" =>
        /\ Unstyled(log_written) = Unstyled(log_console)
        /\ Unstyled(log_written) = Tag(log_args.severity) \o Tag(log_args.when) \o log_args.message
        /\ \A i \in 1..Len(log_written) : log_written[i] \notin AnsiSequences

----------------------------------------------------------------------------
(* The grouped report of check_hardware and check_file_devices.  The i-th   *)
(* .hw file is Physical/<ConfigNames[i]>/Hardware.hw; a finding of it is     *)
(* (hardware_id, reason) resp. (name, path).                                 *)

MaxConfigs == 2

\* The strings of the model in lexicographic order
Lexicographic ==
    <<"Config1", "Config2", "Config3", "Dev1", "Dev2", "X20BC0083", "X20CP0291",
      "c:\\a", "c:\\b", "obsolete", "replaced">>
Rank(x) == CHOOSE i \in 1..Len(Lexicographic) : Lexicographic[i] = x

\* tuple comparison of Python: first components, then second
TupleBefore(a, b) ==
    \/ Rank(a[1]) < Rank(b[1])
    \/ a[1] = b[1] /\ Rank(a[2]) < Rank(b[2])

\* sorted(entries)
RECURSIVE sorted(_)
sorted(entries) ==
    IF entries = {} THEN <<>>
    ELSE LET least == CHOOSE e \in entries : \A o \in entries \ {e} : TupleBefore(e, o)
         IN <<least>> \o sorted(entries \ {least})

ConfigNames == <<"Config1", "Config2">>

GroupFindings(module) ==
    IF module = "check_hardware"
    THEN {<<"X20BC0083", "obsolete">>, <<"X20BC0083", "replaced">>, <<"X20CP0291", "replaced">>}
    ELSE {<<"Dev1", "c:\\a">>, <<"Dev2", "c:\\b">>}

\* The results of the scan: the per-file lists appended in completion order,
\* each finding with the file's configuration directory (a matcher returns
\* list(results) of a set; the report puts the findings back into a set)
ScanResults(files, dirs, done) ==
    Flatten([k \in 1..Len(files) |->
        LET found == sorted(files[done[k]])
        IN [j \in 1..Len(found) |-> <<found[j][1], found[j][2], dirs[done[k]]>>]])

\* The grouping that opens a group for every finding
GroupedPerFinding(found, grouped_results) ==
    [g \in 1..Len(found) |->
        [config_name |-> found[g][3], entries |-> {<<found[g][1], found[g][2]>>}]]

\* config_name = os.path.basename(os.path.dirname(file_path));
\* grouped_results.setdefault(config_name, set()).add(...): a dict keeps its
\* keys in insertion order
RECURSIVE Grouped(_, _)
Grouped(found, grouped_results) ==
    IF found = <<>> THEN grouped_results
    ELSE LET config_name == Head(found)[3]
             entry == <<Head(found)[1], Head(found)[2]>>
             at == {g \in 1..Len(grouped_results) : grouped_results[g].config_name = config_name}
         IN Grouped(Tail(found),
                IF at = {}
                THEN Append(grouped_results, [config_name |-> config_name, entries |-> {entry}])
                ELSE [g \in 1..Len(grouped_results) |->
                        IF g \in at
                        THEN [grouped_results[g] EXCEPT !.entries = @ \cup {entry}]
                        ELSE grouped_results[g]])

GroupLine(config_name, entries) == [kind |-> "group", config_name |-> config_name, entries |-> entries]
EntryLine(entry) == [kind |-> "entry", config_name |-> "", entries |-> <<entry>>]
NoteLine(text) == [kind |-> text, config_name |-> "", entries |-> <<>>]

\* log("The following ... were found:", when=..., severity=...)
HeaderSeverity(module) == IF module = "check_hardware" THEN "WARNING" ELSE "MANDATORY"
HeaderLine(module) ==
    [kind |-> "header", config_name |-> "", entries |-> <<>>, severity |-> HeaderSeverity(module)]

\* hardware_check.py:50-58 and file_device_check.py:71-81:
\* for config_name, entries in grouped_results.items(): ... sorted(entries)
GroupedReport(module, found) ==
    LET grouped_results == Grouped(found, <<>>)
    IN Flatten([g \in 1..Len(grouped_results) |->
          IF module = "check_hardware"
          THEN <<GroupLine(grouped_results[g].config_name, <<>>)>>
               \o [j \in 1..Cardinality(grouped_results[g].entries) |->
                      EntryLine(sorted(grouped_results[g].entries)[j])]
          ELSE <<GroupLine(grouped_results[g].config_name, sorted(grouped_results[g].entries))>>])

GroupInit ==
    /\ group_module \in {"check_hardware", "check_file_devices"}
    /\ \E n \in 1..MaxConfigs : group_files \in [1..n -> SUBSET GroupFindings(group_module)]
    /\ group_dirs \in [1..Len(group_files) -> Range(ConfigNames)]
    /\ group_done \in Orders(Len(group_files))
    /\ group_verbose \in BOOLEAN
    /\ group_results = <<>>
    /\ group_log = <<>>
    /\ group_pc = "scan"
    /\ ScanIdle
    /\ MainIdle
    /\ MatchIdle
    /\ LibIdle
    /\ CompatIdle
    /\ LogIdle
    /\ TwiceIdle
    /\ MappIdle
    /\ RunIdle
    /\ SafetyIdle
    /\ SceneIdle
    /\ UpdateIdle

\* hardware_check.py:34-42, file_device_check.py:57-63
GroupScan ==
    /\ group_pc = "scan"
    /\ group_log' = <<NoteLine("Checking...")>>
    /\ group_results' = ScanResults(group_files, group_dirs, group_done)
    /\ group_pc' = "report"
    /\ UNCHANGED <<group_module, group_files, group_dirs, group_done, group_verbose>>
    /\ UNCHANGED nonGroupVars

\* hardware_check.py:44-61, file_device_check.py:65-93
GroupReport ==
    /\ group_pc = "report"
    /\ group_log' = group_log \o
          (IF group_results # <<>>
           THEN <<HeaderLine(group_module)>> \o GroupedReport(group_module, group_results)
                \o (IF group_module = "check_file_devices" THEN <<NoteLine("advice")>> ELSE <<>>)
           ELSE IF group_verbose THEN <<NoteLine("none found")>> ELSE <<>>)
    /\ group_pc' = "done"
    /\ UNCHANGED <<group_module, group_files, group_dirs, group_done, group_verbose, group_results>>
    /\ UNCHANGED nonGroupVars

GroupNext ==
    \/ GroupScan
    \/ GroupReport

SpecGroup == GroupInit /\ [][GroupNext]_vars

GroupLines == SelectSeq(group_log, LAMBDA l : l.kind = "group")

\* The entries logged for a group: on the group's line, or on the entry
\* lines that follow it
EntriesAfter(i) ==
    IF group_log[i].entries # <<>> THEN group_log[i].entries
    ELSE LET n == RunIn([k \in 1..Len(group_log) |-> group_log[k].kind], i + 1, {"entry"})
         IN [j \in 1..n |-> group_log[i + j].entries[1]]

\* C13: groups are printed in lexicographic order of the grouping key and the
\* findings of a group in lexicographic order, so the printed lines do not
\* depend on the order in which the scan jobs complete.
C13_ReportOrderIsSorted ==
    group_pc = "done" =>
        /\ \A i, j \in 1..Len(GroupLines) :
              i < j => Rank(GroupLines[i].config_name) < Rank(GroupLines[j].config_name)
        /\ \A i \in 1..Len(group_log) :
              group_log[i].kind = "group" =>
                  \A a, b \in 1..Len(EntriesAfter(i)) :
                      a < b => TupleBefore(EntriesAfter(i)[a], EntriesAfter(i)[b])

----------------------------------------------------------------------------
(* Two runs of the analyzer over one project tree.  A file is the directory *)
(* below the project root it lies in ("" for the root itself) and its name;  *)
(* the result file lies in the project directory.                            *)

Suffix(x) == <<".">> \o x

\* output_file mutated: the result file carries the descriptor suffix
OutputFileNamedApj == [dir |-> "", name |-> <<"as4_to_as6_analyzer_result">> \o Suffix(<<"a", "p", "j">>)]

\* os.path.join(args.project_path, "as4_to_as6_analyzer_result.txt")
output_file == [dir |-> "", name |-> <<"as4_to_as6_analyzer_result">> \o Suffix(<<"t", "x", "t">>)]

ProjectDescriptor == [dir |-> "", name |-> <<"P">> \o Suffix(<<"a", "p", "j">>)]
OptionalFiles ==
    {[dir |-> "Logical", name |-> <<"Package">> \o Suffix(<<"p", "k", "g">>)],
     [dir |-> "Logical", name |-> <<"Main">> \o Suffix(<<"s", "t">>)],
     [dir |-> "Logical", name |-> <<"notes">> \o Suffix(<<"t", "x", "t">>)],
     [dir |-> "Physical", name |-> <<"Hardware">> \o Suffix(<<"h", "w">>)]}

\* The scans of the suite: the directory walked and the suffixes kept
SuiteScans ==
    <<[name |-> "process_manual_libraries", dir |-> "Logical", exts |-> <<Suffix(<<"p", "k", "g">>)>>],
      [name |-> "process_pkg_file", dir |-> "Logical", exts |-> <<Suffix(<<"p", "k", "g">>)>>],
      [name |-> "process_var_file", dir |-> "Logical",
       exts |-> <<Suffix(<<"v", "a", "r">>), Suffix(<<"t", "y", "p">>)>>],
      [name |-> "process_st_c_file", dir |-> "Logical",
       exts |-> <<Suffix(<<"s", "t">>), Suffix(<<"c">>), Suffix(<<"c", "p", "p">>)>>],
      [name |-> "process_hw_file", dir |-> "Physical", exts |-> <<Suffix(<<"h", "w">>)>>],
      [name |-> "process_file_devices", dir |-> "Physical", exts |-> <<Suffix(<<"h", "w">>)>>],
      [name |-> "process_ftp_configurations", dir |-> "Physical", exts |-> <<Suffix(<<"h", "w">>)>>],
      [name |-> "process_lby_file", dir |-> "Logical", exts |-> <<Suffix(<<"l", "b", "y">>)>>],
      [name |-> "process_c_cpp_hpp_includes_file", dir |-> "Logical",
       exts |-> <<Suffix(<<"c">>), Suffix(<<"c", "p", "p">>), Suffix(<<"h", "p", "p">>)>>],
      [name |-> "check_file_version", dir |-> "", exts |-> <<Suffix(<<"a", "p", "j">>)>>],
      [name |-> "check_safety_release", dir |-> "",
       exts |-> <<Suffix(<<"p", "k", "g">>), Suffix(<<"s", "w", "t">>)>>]>>

\* The files on disk: the project's files and the result file once it exists
FilesOnDisk == tw_tree \cup (IF tw_out.exists THEN {output_file} ELSE {})

\* A walk below the project root's directory dir ("" walks the whole project)
\* keeping the names that end in one of the suffixes
Walked(scan) ==
    {f \in FilesOnDisk :
        /\ scan.dir = "" \/ f.dir = scan.dir
        /\ \E i \in 1..Len(scan.exts) : EndsWith(f.name, scan.exts[i])}

\* A matcher finds something in every project file it reads, and in the
\* result file when it holds lines
Readable(f) == f # output_file \/ tw_out.lines > 0

TwiceInit ==
    /\ tw_tree \in {{ProjectDescriptor} \cup fs : fs \in SUBSET OptionalFiles}
    /\ tw_first \in BOOLEAN
    /\ tw_out \in {[exists |-> FALSE, lines |-> 0], [exists |-> TRUE, lines |-> 1]}
    /\ tw_run = 1
    /\ tw_apj = <<>>
    /\ tw_step = 1
    /\ tw_found = [r \in {1, 2} |-> {}]
    /\ tw_pc = "validate"
    /\ ScanIdle
    /\ MainIdle
    /\ MatchIdle
    /\ LibIdle
    /\ CompatIdle
    /\ LogIdle
    /\ GroupIdle
    /\ MappIdle
    /\ RunIdle
    /\ SafetyIdle
    /\ SceneIdle
    /\ UpdateIdle

\* get_project_file: apj_files[0] of os.listdir(project_path)
TwiceValidate ==
    /\ tw_pc = "validate"
    /\ LET apj_files == {f \in FilesOnDisk : f.dir = "" /\ EndsWith(f.name, Suffix(<<"a", "p", "j">>))}
       IN tw_apj' = IF output_file \in apj_files /\ tw_first THEN output_file.name
                    ELSE (CHOOSE f \in apj_files \ {output_file} : TRUE).name
    /\ tw_pc' = "open"
    /\ UNCHANGED <<tw_tree, tw_first, tw_out, tw_run, tw_step, tw_found>>
    /\ UNCHANGED nonTwiceVars

\* with open(output_file, "w", encoding="utf-8") as file: creates or truncates
TwiceOpen ==
    /\ tw_pc = "open"
    /\ tw_out' = [exists |-> TRUE, lines |-> 1]
    /\ tw_step' = 1
    /\ tw_pc' = "scans"
    /\ UNCHANGED <<tw_tree, tw_first, tw_run, tw_apj, tw_found>>
    /\ UNCHANGED nonTwiceVars

\* One scan of the suite and the report of what it found
TwiceScan ==
    /\ tw_pc = "scans"
    /\ LET scan == SuiteScans[tw_step]
           found == {<<scan.name, f.name>> : f \in {g \in Walked(scan) : Readable(g)}}
       IN /\ tw_found' = [tw_found EXCEPT ![tw_run] = @ \cup found]
          /\ tw_out' = [tw_out EXCEPT !.lines = @ + Cardinality(found)]
    /\ IF tw_step < Len(SuiteScans)
       THEN tw_step' = tw_step + 1 /\ tw_pc' = tw_pc
       ELSE tw_step' = tw_step /\ tw_pc' = "descriptor"
    /\ UNCHANGED <<tw_tree, tw_first, tw_run, tw_apj>>
    /\ UNCHANGED nonTwiceVars

\* The checks that read the descriptor main was given
TwiceDescriptor ==
    /\ tw_pc = "descriptor"
    /\ tw_found' = [tw_found EXCEPT ![tw_run] = @ \cup {<<"apj_file", tw_apj>>}]
    /\ tw_out' = [tw_out EXCEPT !.lines = @ + 1]
    /\ tw_pc' = "close"
    /\ UNCHANGED <<tw_tree, tw_first, tw_run, tw_apj, tw_step>>
    /\ UNCHANGED nonTwiceVars

\* main returns; the second run starts
TwiceClose ==
    /\ tw_pc = "close"
    /\ IF tw_run = 1
       THEN tw_run' = 2 /\ tw_pc' = "validate"
       ELSE tw_run' = tw_run /\ tw_pc' = "done"
    /\ UNCHANGED <<tw_tree, tw_first, tw_out, tw_apj, tw_step, tw_found>>
    /\ UNCHANGED nonTwiceVars

TwiceNext ==
    \/ TwiceValidate
    \/ TwiceOpen
    \/ TwiceScan
    \/ TwiceDescriptor
    \/ TwiceClose

SpecTwice == TwiceInit /\ [][TwiceNext]_vars

----------------------------------------------------------------------------
(* The rule matchers on single inputs: file devices, whole words, package   *)
(* elements.  The matcher's text is m_text and its rule table m_table; for   *)
(* the file-device matcher m_table holds the blocks m_text was written from. *)

MaxDevices == 2
MaxPieces == 3

RECURSIVE Concats(_, _)
Concats(pieces, n) ==
    IF n = 0 THEN {<<>>}
    ELSE LET fewer == Concats(pieces, n - 1)
         IN fewer \cup {p \o t : p \in pieces, t \in fewer}

\* The literal parts of the file-device expression, one atom each
GROUPFD == "<Group ID=\"FileDevice"
NAMEFD == "<Parameter ID=\"FileDeviceName"
PATHFD == "<Parameter ID=\"FileDevicePath"
QVALUE == "\" Value=\""

\* exclude = ["C:\\", "D:\\", "E:\\", "F:\\"]
exclude == << <<"C", ":", "\\">>, <<"D", ":", "\\">>, <<"E", ":", "\\">>, <<"F", ":", "\\">> >>

\* '" />\s*<Parameter ID="FileDevicePath\d+" Value="(.*?)" />' matched at
\* position p: the lazy group ends at the first '" />' of the line
PathTailAt(t, p) ==
    LET a == p + 1 + RunIn(t, p + 1, SpaceChars)
        d == RunIn(t, a + 1, Digits)
        v == a + 1 + d
        len == RunNotIn(t, v + 1, {END, "\n"})
        e == v + 1 + len
    IN IF /\ HasAt(t, p, <<END>>) /\ HasAt(t, a, <<PATHFD>>) /\ d >= 1
          /\ HasAt(t, v, <<QVALUE>>) /\ HasAt(t, e, <<END>>)
       THEN [found |-> TRUE, group0 |-> SubSeq(t, p, e),
             group1 |-> SubSeq(t, v + 1, e - 1), stop |-> e]
       ELSE NoMatch

\* The whole expression matched at position i: the lazy name group ends at the
\* first '" />' of the line after which the rest of the expression matches
FileDeviceAt(t, i) ==
    LET d1 == RunIn(t, i + 1, Digits)
        c == i + 1 + d1
        a == c + 1 + RunIn(t, c + 1, SpaceChars)
        d2 == RunIn(t, a + 1, Digits)
        v == a + 1 + d2
        stops == {k \in (v + 1)..Len(t) :
                    /\ \A j \in (v + 1)..(k - 1) : t[j] # "\n"
                    /\ PathTailAt(t, k).found}
    IN IF /\ HasAt(t, i, <<GROUPFD>>) /\ d1 >= 1 /\ HasAt(t, c, <<END>>)
          /\ HasAt(t, a, <<NAMEFD>>) /\ d2 >= 1 /\ HasAt(t, v, <<QVALUE>>)
          /\ stops # {}
       THEN LET k == CHOOSE x \in stops : \A y \in stops : x <= y
            IN [found |-> TRUE, name |-> SubSeq(t, v + 1, k - 1),
                path |-> PathTailAt(t, k).group1, stop |-> PathTailAt(t, k).stop]
       ELSE [found |-> FALSE, name |-> <<>>, path |-> <<>>, stop |-> 0]

\* re.findall(r'<Group ID="FileDevice\d+" />\s*<Parameter ID="FileDeviceName\d+" ...', content)
RECURSIVE FindAllFileDevices(_, _)
FindAllFileDevices(t, i) ==
    IF i > Len(t) THEN <<>>
    ELSE LET m == FileDeviceAt(t, i)
         IN IF m.found THEN << <<m.name, m.path>> >> \o FindAllFileDevices(t, m.stop + 1)
            ELSE FindAllFileDevices(t, i + 1)

\* The loop without .lower(): if path.startswith(exclusion)
ProcessFileDevicesCaseSensitive(file_path, bytes) ==
    {<<m[1], m[2], file_path>> :
        m \in {x \in Range(FindAllFileDevices(read_file(bytes), 1)) :
                 \E e \in 1..Len(exclude) : StartsWith(x[2], exclude[e])}}

\* for name, path in matches: for exclusion in exclude:
\*     if path.lower().startswith(exclusion.lower()): results.add((name, path, file_path))
FlaggedDevices(content, file_path) ==
    {<<m[1], m[2], file_path>> :
        m \in {x \in Range(FindAllFileDevices(content, 1)) :
                 \E e \in 1..Len(exclude) : StartsWith(Lower(x[2]), Lower(exclude[e]))}}

\* file_device_check.process_file_devices: the set results before list(results)
process_file_devices(file_path, bytes) == FlaggedDevices(read_file(bytes), file_path)

\* analyzer.process_file_devices: the same loop over f.read()
analyzer_process_file_devices(file_path, bytes) == FlaggedDevices(Decode(bytes), file_path)

\* list(results): the elements of the set in some order
ListOf(S) ==
    {[i \in 1..Cardinality(S) |-> l[i]] :
        l \in {f \in [1..Cardinality(S) -> S] : \A i, j \in 1..Cardinality(S) : f[i] = f[j] => i = j}}

UserPath == <<"U", "S", "E", "R", "_", "P", "A", "T", "H", ":", "\\", "x">>
DevicePaths ==
    {<<"C", ":", "\\", "T", "e", "m", "p", "\\", "x">>,
     <<"c", ":", "\\">>,
     <<"f", ":", "\\", "a">>,
     <<"C", InvalidByte, ":", "\\">>,
     <<"G", ":", "\\">>,
     UserPath,
     <<"T", "e", "m", "p", "\\", "S", "i", "m", "u", "l", "a", "t", "i", "o", "n">>,
     <<"x", "C", ":", "\\">>,
     <<"C", ":", "/">>}

\* A block of the hardware descriptor: a file device, or a group without number
DeviceBlocks ==
    {[kind |-> "device", name |-> <<"U">>, path |-> p] : p \in DevicePaths}
        \cup {[kind |-> "device", name |-> <<"V">>, path |-> <<"D", ":", "\\">>],
              [kind |-> "unnumbered", name |-> <<"U">>, path |-> <<"E", ":", "\\">>]}

RenderBlock(b) ==
    <<GROUPFD>> \o (IF b.kind = "device" THEN <<"1">> ELSE <<>>) \o <<END, "\n", " ", NAMEFD, "1", QVALUE>>
        \o b.name \o <<END, "\n", " ", PATHFD, "1", "0", QVALUE>> \o b.path \o <<END, "\n">>

Render(blocks) == Flatten([i \in 1..Len(blocks) |-> RenderBlock(blocks[i])])

\* check_deprecated_math_functions on a tree of one file with a listed suffix:
\* function_pattern = re.compile(r"\b(" + "|".join(deprecated_functions) + r")\s*\(")
SearchFunctionCall(content, deprecated_functions) ==
    \E i \in 1..Len(content) :
        /\ WordBoundary(content, i)
        /\ \E f \in deprecated_functions :
              /\ HasAt(content, i, f)
              /\ LET p == i + Len(f)
                 IN HasAt(content, p + RunIn(content, p, SpaceChars), <<"(">>)

check_deprecated_math_functions(file_path, bytes, deprecated_functions) ==
    IF SearchFunctionCall(read_file(bytes), deprecated_functions) THEN <<file_path>> ELSE <<>>

Ceil == <<"c", "e", "i", "l">>
Brm == <<"b", "r", "m">>
WordPieces == {Ceil, Brm, <<"C", "E", "I", "L">>, <<"(">>, <<" ">>, <<"x">>}
WordTables ==
    {<< <<Ceil, "r1">> >>,
     << <<Ceil, "r1">>, <<<<"x">>, "r2">> >>,
     << <<Brm \o Ceil, "r3">>, <<Ceil, "r1">> >>}
FunctionSets == {{Ceil}, {Ceil, <<"x">>}}

LibA == <<"L", "i", "b", "A">>
LibB == <<"L", "i", "b", "B">>
LibALower == <<"l", "i", "b", "a">>
Tagged(name) == <<">">> \o name \o <<"<">>
PkgPieces == {Tagged(LibA), Tagged(LibB), Tagged(LibALower), Tagged(<<"L", "i", "b">>),
              <<">">>, <<"<">>, LibA}
RuleTables ==
    {<< <<LibALower, "reason1">> >>,
     << <<LibA, "reason1">>, <<<<"l", "i", "b", "b">>, "reason2">> >>,
     << <<LibALower, "reason1">>, <<<<"L", "I", "B", "A">>, "reason2">> >>}

MaxModules == 3

\* The literal parts of the hardware descriptor the module expression reads
MODULETAG == "<Module "
CONNECTOR == "<Connector "
TYPEQ == "Type=\""
NAMEQ == "Name=\""
QuoteAtoms == {QUOTE, TYPEQ, NAMEQ, QVALUE, END}

\* r'<Module [^>]*Type="([^"]+)"' matched at position i: [^>]* is greedy, so the
\* last Type=" of the tag that a value and a quote follow is taken
ModuleTypeAt(t, i) ==
    LET starts == {k \in (i + 1)..Len(t) :
                     /\ \A j \in (i + 1)..(k - 1) : t[j] # ">"
                     /\ t[k] = TYPEQ
                     /\ RunNotIn(t, k + 1, QuoteAtoms) >= 1
                     /\ HasAt(t, k + 1 + RunNotIn(t, k + 1, QuoteAtoms), <<QUOTE>>)}
    IN IF HasAt(t, i, <<MODULETAG>>) /\ starts # {}
       THEN LET k == CHOOSE x \in starts : \A y \in starts : y <= x
                len == RunNotIn(t, k + 1, QuoteAtoms)
            IN [found |-> TRUE, group0 |-> SubSeq(t, i, k + 1 + len),
                group1 |-> SubSeq(t, k + 1, k + len), stop |-> k + 1 + len]
       ELSE NoMatch

\* re.findall(r'<Module [^>]*Type="([^"]+)"', content)
RECURSIVE FindAllModuleTypes(_, _)
FindAllModuleTypes(t, i) ==
    IF i > Len(t) THEN <<>>
    ELSE LET m == ModuleTypeAt(t, i)
         IN IF m.found THEN <<m.group1>> \o FindAllModuleTypes(t, m.stop + 1)
            ELSE FindAllModuleTypes(t, i + 1)

\* The loop that stops at the first reason listing the type
ProcessHwFileFirstReason(file_path, bytes, hardware_dict) ==
    {<<hw_type, hardware_dict[r][1], file_path>> :
        <<hw_type, r>> \in {x \in Range(FindAllModuleTypes(read_file(bytes), 1)) \X DOMAIN hardware_dict :
                              /\ x[1] \in hardware_dict[x[2]][2]
                              /\ \A q \in 1..(x[2] - 1) : x[1] \notin hardware_dict[q][2]}}

\* for hw_type in matches: for reason, items in hardware_dict.items():
\*     if hw_type in items: results.add((hw_type, reason, file_path))
UnsupportedModules(content, hardware_dict, file_path) ==
    {<<x[1], hardware_dict[x[2]][1], file_path>> :
        x \in {y \in Range(FindAllModuleTypes(content, 1)) \X DOMAIN hardware_dict :
                 y[1] \in hardware_dict[y[2]][2]}}

\* hardware_check.process_hw_file: the set results before list(results)
process_hw_file(file_path, bytes, hardware_dict) ==
    UnsupportedModules(read_file(bytes), hardware_dict, file_path)

\* analyzer.process_hw_file: the same loop over f.read()
analyzer_process_hw_file(file_path, bytes, hardware_dict) ==
    UnsupportedModules(Decode(bytes), hardware_dict, file_path)

ModuleTypes == {<<"X20A">>, <<"X20B">>, <<"5AP">>}
HardwareDicts ==
    {<< <<"r1", {<<"X20A">>}>> >>,
     << <<"r1", {<<"X20A">>, <<"X20B">>}>>, <<"r2", {<<"X20A">>}>> >>}

\* An element of the descriptor: a module with its type, a module without a
\* type, or another element that carries a Type attribute
HwBlocks ==
    {[kind |-> "module", type |-> ty] : ty \in ModuleTypes}
        \cup {[kind |-> "untyped", type |-> <<"X20A">>],
              [kind |-> "connector", type |-> <<"X20A">>],
              [kind |-> "connector", type |-> <<"X20B">>]}

RenderHwBlock(b) ==
    CASE b.kind = "module" ->
            <<MODULETAG, NAMEQ, "n", QUOTE, " ", TYPEQ>> \o b.type \o <<QUOTE, " ", ">", "\n">>
      [] b.kind = "untyped" -> <<MODULETAG, NAMEQ>> \o b.type \o <<QUOTE, ">", "\n">>
      [] b.kind = "connector" -> <<CONNECTOR, TYPEQ>> \o b.type \o <<QUOTE, "/", ">", "\n">>

RenderHw(blocks) == Flatten([i \in 1..Len(blocks) |-> RenderHwBlock(blocks[i])])

RuleMatcherNames ==
    {"process_file_devices", "analyzer.process_file_devices", "process_st_c_file",
     "check_deprecated_math_functions", "process_pkg_file",
     "process_hw_file", "analyzer.process_hw_file"}

RulesInit ==
    /\ m_fn \in RuleMatcherNames
    /\ CASE m_fn \in {"process_file_devices", "analyzer.process_file_devices"} ->
              /\ m_table \in SeqsUpTo(DeviceBlocks, MaxDevices)
              /\ m_text = Render(m_table)
         [] m_fn = "process_st_c_file" ->
              /\ m_table \in WordTables
              /\ m_text \in Concats(WordPieces, MaxPieces)
         [] m_fn = "check_deprecated_math_functions" ->
              /\ m_table \in FunctionSets
              /\ m_text \in Concats(WordPieces, MaxPieces)
         [] m_fn = "process_pkg_file" ->
              /\ m_table \in RuleTables
              /\ m_text \in Concats(PkgPieces, MaxPieces)
         [] m_fn \in {"process_hw_file", "analyzer.process_hw_file"} ->
              /\ m_table \in {[hardware_dict |-> d, blocks |-> b] :
                                d \in HardwareDicts, b \in SeqsUpTo(HwBlocks, MaxModules)}
              /\ m_text = RenderHw(m_table.blocks)
    /\ m_out = <<>>
    /\ m_pc = "call"
    /\ ScanIdle
    /\ MainIdle
    /\ LibIdle
    /\ CompatIdle
    /\ LogIdle
    /\ GroupIdle
    /\ TwiceIdle
    /\ MappIdle
    /\ RunIdle
    /\ SafetyIdle
    /\ SceneIdle
    /\ UpdateIdle

CallFileDevices ==
    \E out \in ListOf(process_file_devices(FilePath, m_text)) :
        Returns("process_file_devices", out)

CallFileDevicesAnalyzer ==
    \E out \in ListOf(analyzer_process_file_devices(FilePath, m_text)) :
        Returns("analyzer.process_file_devices", out)

CallMathFunctions ==
    Returns("check_deprecated_math_functions",
            check_deprecated_math_functions(FilePath, m_text, m_table))

CallPkg == Returns("process_pkg_file", process_pkg_file(FilePath, m_text, m_table))

CallHw ==
    /\ m_fn = "process_hw_file"
    /\ \E out \in ListOf(process_hw_file(FilePath, m_text, m_table.hardware_dict)) :
          Returns("process_hw_file", out)

CallHwAnalyzer ==
    /\ m_fn = "analyzer.process_hw_file"
    /\ \E out \in ListOf(analyzer_process_hw_file(FilePath, m_text, m_table.hardware_dict)) :
          Returns("analyzer.process_hw_file", out)

RulesNext ==
    \/ CallHw
    \/ CallHwAnalyzer
    \/ CallFileDevices
    \/ CallFileDevicesAnalyzer
    \/ CallStC
    \/ CallMathFunctions
    \/ CallPkg

SpecRules == RulesInit /\ [][RulesNext]_vars

\* A path that starts, ignoring case, with a drive prefix C:\, D:\, E:\ or F:\
DrivePath(path) ==
    /\ Len(path) >= 3
    /\ path[1] \in {"C", "c", "D", "d", "E", "e", "F", "f"}
    /\ path[2] = ":"
    /\ path[3] = "\\"

\* C18: process_file_devices flags (name, path, file) exactly for the file
\* devices whose path starts, ignoring case, with C:\, D:\, E:\ or F:\; a path
\* USER_PATH:\x is never flagged; every flagged tuple is in the result once.
C18_DrivePathsFlaggedOnce ==
    (Returned("process_file_devices") \/ Returned("analyzer.process_file_devices")) =>
        /\ Range(m_out) = {<<b.name, Decode(b.path), FilePath>> :
                             b \in {x \in Range(m_table) :
                                      x.kind = "device" /\ DrivePath(Decode(x.path))}}
        /\ \A i, j \in 1..Len(m_out) : m_out[i] = m_out[j] => i = j
        /\ \A i \in 1..Len(m_out) : m_out[i][2] # UserPath

C18_Witness ==
    /\ Returned("process_file_devices")
    /\ \E i \in 1..Len(m_table) : m_table[i].path = UserPath
    /\ \E i \in 1..Len(m_table) : m_table[i].path = <<"c", ":", "\\">>
    /\ Len(m_out) = 1

\* The key w stands in t at position i as a whole word, in the same case
WholeWordAt(t, i, w) ==
    /\ HasAt(t, i, w)
    /\ i = 1 \/ t[i - 1] \notin WordChars
    /\ i + Len(w) > Len(t) \/ t[i + Len(w)] \notin WordChars

OccursAsWord(t, w) == \E i \in 1..Len(t) : WholeWordAt(t, i, w)

\* A call of w: the whole word, then white space, then "("
OccursAsCall(t, w) ==
    \E i \in 1..Len(t) :
        /\ WholeWordAt(t, i, w)
        /\ \E k \in (i + Len(w))..Len(t) :
              /\ t[k] = "("
              /\ \A j \in (i + Len(w))..(k - 1) : t[j] \in SpaceChars

\* C19: the source matchers match a rule key only as a whole word and in the
\* same case: with the key "ceil", a text whose only occurrence is inside
\* "brmceil" gives no match and a text with a standalone "ceil(" gives one.
C19_WholeWordCaseSensitive ==
    /\ Returned("process_st_c_file") =>
          /\ \A j \in 1..Len(m_out) : OccursAsWord(m_text, m_out[j][1])
          /\ m_out # <<>> <=> \E r \in 1..Len(m_table) : OccursAsWord(m_text, m_table[r][1])
          /\ m_table = << <<Ceil, "r1">> >> =>
                m_out = IF OccursAsWord(m_text, Ceil) THEN << <<Ceil, "r1", FilePath>> >> ELSE <<>>
    /\ Returned("process_st_c_file") =>
          /\ (m_text = Brm \o Ceil \o <<"(">> /\ \A r \in 1..Len(m_table) : m_table[r][1] # Brm \o Ceil) =>
                m_out = <<>>
          /\ m_text = Ceil \o <<"(">> => m_out # <<>>
    /\ Returned("check_deprecated_math_functions") =>
          /\ m_out # <<>> <=> \E f \in m_table : OccursAsCall(m_text, f)
          /\ m_text = Brm \o Ceil \o <<"(">> => m_out = <<>>
          /\ m_text = Ceil \o <<"(">> => m_out = <<FilePath>>

C19_Witness ==
    /\ Returned("process_st_c_file")
    /\ m_text = Brm \o Ceil \o <<"(">>
    /\ m_table = << <<Ceil, "r1">> >>
    /\ m_out = <<>>

\* An element text starts after the ">" at position i: a ">" followed by at
\* least one character other than "<" up to a later "<", that lies in no
\* element text begun at an earlier ">"
ElementStart(t, i) ==
    /\ t[i] = ">"
    /\ i + 1 <= Len(t) /\ t[i + 1] # "<"
    /\ \E e \in (i + 2)..Len(t) : t[e] = "<"
    /\ ~ \E j \in 1..(i - 1) : t[j] = ">" /\ \A k \in (j + 1)..i : t[k] # "<"

ElementTextFrom(t, i) ==
    LET e == CHOOSE x \in (i + 2)..Len(t) : t[x] = "<" /\ \A y \in (i + 2)..(x - 1) : t[y] # "<"
    IN SubSeq(t, i + 1, e - 1)

\* The rules of the table whose key equals the text ignoring case, in table order
RulesEqualTo(text, table) ==
    LET hits == SelectSeq(table, LAMBDA r : Lower(r[1]) = Lower(text))
    IN [k \in 1..Len(hits) |-> <<hits[k][1], hits[k][2], FilePath>>]

\* C20: process_pkg_file returns (rule key, reason, file) for an element text
\* exactly when the text equals a rule key ignoring case and nothing for any
\* other text; for LibA and LibB with the table {"liba": "reason1"} the result
\* is exactly [("liba", "reason1", path)].
C20_ElementEqualsKeyIgnoringCase ==
    Returned("process_pkg_file") =>
        /\ m_out = Flatten([i \in 1..Len(m_text) |->
                      IF ElementStart(m_text, i)
                      THEN RulesEqualTo(ElementTextFrom(m_text, i), m_table) ELSE <<>>])
        /\ (m_text = Tagged(LibA) \o Tagged(LibB) /\ m_table = << <<LibALower, "reason1">> >>) =>
              m_out = << <<LibALower, "reason1", FilePath>> >>

C20_Witness ==
    /\ Returned("process_pkg_file")
    /\ m_text = Tagged(LibA) \o Tagged(LibB)
    /\ m_table = << <<LibALower, "reason1">> >>
    /\ Len(m_out) = 1

\* C21: process_hw_file returns, without duplicates, exactly the (type, reason,
\* file) with type the Type value of a <Module> element of the file and type a
\* member of the reason's identifier set; a type listed several times still
\* gives one finding per reason.
C21_ModuleTypesPerReasonOnce ==
    (Returned("process_hw_file") \/ Returned("analyzer.process_hw_file")) =>
        /\ Range(m_out) =
              {<<b.type, r[1], FilePath>> :
                  <<b, r>> \in {x \in Range(m_table.blocks) \X Range(m_table.hardware_dict) :
                                  x[1].kind = "module" /\ x[1].type \in x[2][2]}}
        /\ \A i, j \in 1..Len(m_out) : m_out[i] = m_out[j] => i = j

C21_Witness ==
    /\ Returned("process_hw_file")
    /\ \E i, j \in 1..Len(m_table.blocks) :
          i # j /\ m_table.blocks[i] = m_table.blocks[j] /\ m_table.blocks[i].kind = "module"
             /\ m_table.blocks[i].type = <<"X20A">>
    /\ Len(m_table.hardware_dict) = 2
    /\ Len(m_out) = 2

\* The findings of the files that lie in a directory of the given name
FindingsIn(config_name) ==
    UNION {group_files[f] : f \in {x \in DOMAIN group_files : group_dirs[x] = config_name}}

\* C22: the grouped hardware report prints exactly one group header per
\* distinct directory name among the findings, and under each header one line
\* per distinct (module type, reason) of that group, in lexicographic order of
\* the matched value.
C22_OneHeaderPerConfiguration ==
    (group_pc = "done" /\ group_module = "check_hardware") =>
        /\ {GroupLines[i].config_name : i \in 1..Len(GroupLines)} =
              {c \in Range(ConfigNames) : FindingsIn(c) # {}}
        /\ \A i, j \in 1..Len(GroupLines) :
              GroupLines[i].config_name = GroupLines[j].config_name => i = j
        /\ \A i \in 1..Len(group_log) :
              group_log[i].kind = "group" =>
                  /\ Range(EntriesAfter(i)) = FindingsIn(group_log[i].config_name)
                  /\ \A a, b \in 1..Len(EntriesAfter(i)) :
                        a < b =>
                            /\ EntriesAfter(i)[a] # EntriesAfter(i)[b]
                            /\ Rank(EntriesAfter(i)[a][1]) <= Rank(EntriesAfter(i)[b][1])
        /\ Cardinality({i \in 1..Len(group_log) : group_log[i].kind = "entry"}) =
              Cardinality({<<c, e>> \in Range(ConfigNames) \X GroupFindings(group_module) :
                              e \in FindingsIn(c)})

C22_Witness ==
    /\ group_pc = "done" /\ group_module = "check_hardware"
    /\ Len(group_files) = 2 /\ group_dirs[1] = group_dirs[2]
    /\ group_files[1] \cap group_files[2] # {}
    /\ Cardinality(group_files[1] \cup group_files[2]) >= 2
    /\ Len(GroupLines) = 1

\* C23: a hardware descriptor with an unsupported module type is reported with
\* MANDATORY severity and with the path of the descriptor.
C23_HardwareFindingMandatoryWithPath ==
    (group_pc = "done" /\ group_module = "check_hardware" /\ group_results # <<>>) =>
        /\ \A i \in 1..Len(group_log) :
              group_log[i].kind = "header" => group_log[i].severity = "MANDATORY"
        /\ \A r \in 1..Len(group_results) :
              \E i \in 1..Len(group_log) :
                  /\ group_log[i].kind = "entry"
                  /\ group_log[i].entries[1] = group_results[r]

----------------------------------------------------------------------------
(* mapp_services.check_mapp_version.  The descriptor is a sequence of       *)
(* lexical atoms: "<", an element name, Version=", a number, "." and so on.  *)

MaxApjLines == 2

VERSIONQ == "Version=\""
NumberAtoms == {"0", "5", "6", "10", "20", "21"}

\* int(m.group(k))
IntOf(d) ==
    CASE d = "0" -> 0 [] d = "5" -> 5 [] d = "6" -> 6
      [] d = "10" -> 10 [] d = "20" -> 20 [] d = "21" -> 21

\* str.splitlines
RECURSIVE splitlines(_)
splitlines(text) ==
    IF text = <<>> THEN <<>>
    ELSE LET n == RunNotIn(text, 1, {"\n"})
         IN <<SubSeq(text, 1, n)>>
               \o (IF n >= Len(text) THEN <<>> ELSE splitlines(SubSeq(text, n + 2, Len(text))))

\* re.search(r'Version="(\d+)\.(\d+)', line)
SearchMappVersion(line) ==
    LET at == {i \in 1..Len(line) :
                 /\ line[i] = VERSIONQ
                 /\ i + 3 <= Len(line)
                 /\ line[i + 1] \in NumberAtoms /\ line[i + 2] = "." /\ line[i + 3] \in NumberAtoms}
    IN IF at = {} THEN [found |-> FALSE, major |-> 0, minor |-> 0]
       ELSE LET i == CHOOSE x \in at : \A y \in at : x <= y
            IN [found |-> TRUE, major |-> IntOf(line[i + 1]), minor |-> IntOf(line[i + 3])]

\* mapp_services.py:19-42
ServicesLines(line) ==
    LET m == SearchMappVersion(line)
    IN IF /\ \/ Contains(line, <<"<", "mapp", " ">>) /\ Contains(line, <<VERSIONQ>>)
             \/ Contains(line, <<"<", "mappServices">>) /\ Contains(line, <<VERSIONQ>>)
          /\ m.found
       THEN <<TextLine("INFO", "", "Detected Mapp Services version"),
              IF m.major = 5 /\ m.minor < 20
              THEN TextLine("MANDATORY", "AS4", "It is recommended to use a mapp Services version 5.20 or later")
              ELSE TextLine("MANDATORY", "AS6", "The automatic upgrade is only available with mapp Services 6.0")>>
       ELSE <<>>

\* mapp_services.py:44-55
MotionLines(line) ==
    IF /\ Contains(line, <<"<", "mappMotion", " ">>)
       /\ Contains(line, <<VERSIONQ, "5", ".">>)
       /\ SearchMappVersion(line).found
    THEN <<TextLine("INFO", "", "Detected Mapp Motion version"),
           TextLine("MANDATORY", "AS6", "You must first upgrade mappMotion to version 6.0")>>
    ELSE <<>>

\* for line in txt.splitlines(): ...
RECURSIVE VersionLinesOf(_)
VersionLinesOf(lines) ==
    IF lines = <<>> THEN <<>>
    ELSE ServicesLines(Head(lines)) \o MotionLines(Head(lines)) \o VersionLinesOf(Tail(lines))

Acp10Names == {"Acp10Arnc0", "acp10man"}
MappMotionNames == {"mappMotion", "MappMotion"}

\* re.search(r"<\s*Acp10[A-Za-z0-9_]*\b", txt, flags=re.IGNORECASE) and
\* re.search(r"<\s*mappMotion\b", txt, flags=re.IGNORECASE)
SearchElement(txt, names) ==
    \E i \in 1..Len(txt) :
        /\ txt[i] = "<"
        /\ LET p == i + 1 + RunIn(txt, i + 1, SpaceChars)
           IN p <= Len(txt) /\ txt[p] \in names

\* mapp_services.py:64-71
MotionChoice(has_acp10, has_mappmotion) ==
    IF has_mappmotion /\ ~has_acp10 THEN "mappMotion"
    ELSE IF has_acp10 /\ ~has_mappmotion THEN "acp10"
    ELSE IF ~has_acp10 /\ ~has_mappmotion THEN "none"
    ELSE "mappMotion"

\* mapp_services.py:74-79
RequiredMappFolders(motion_choice) ==
    <<"mappServices", "mappView">>
        \o (IF motion_choice = "mappMotion" THEN <<"mappMotion", "mappCockpit">> ELSE <<>>)

\* mapp_services.py:88-121: the required folders a configuration neither holds
\* nor references in its cpu.pkg
Missing(config, required) ==
    {name \in Range(required) :
        /\ name \notin config.present
        /\ ~(config.cpu_pkg /\ name \in config.referenced)}

\* mapp_services.py:86-133
FolderLines(configs, required) ==
    IF \E c \in 1..Len(configs) : Missing(configs[c], required) # {}
    THEN <<[kind |-> "text", severity |-> "MANDATORY", when |-> "AS4",
            text |-> "Some configurations are missing one or more of the required mapp folders",
            finding |-> [c \in {x \in 1..Len(configs) : Missing(configs[x], required) # {}} |->
                            Missing(configs[c], required)]]>>
    ELSE <<>>

Elem(name, version) == <<"<", name, " ", VERSIONQ>> \o version \o <<QUOTE, "/", ">", "\n">>
ApjLineSet ==
    {Elem("mapp", <<"5", ".", "10">>),
     Elem("mapp", <<"x">>),
     Elem("mappServices", <<"6", ".", "0">>),
     Elem("mappMotion", <<"5", ".", "21">>),
     Elem("mappMotion", <<"6", ".", "0">>),
     <<"<", " ", "Acp10Arnc0", " ", "/", ">", "\n">>,
     Elem("mappView", <<"5", ".", "20">>)}

MappFolders == {"mappServices", "mappView", "mappMotion", "mappCockpit"}
ConfigOptions ==
    {[present |-> MappFolders, cpu_pkg |-> FALSE, referenced |-> {}],
     [present |-> {"mappServices", "mappView"}, cpu_pkg |-> FALSE, referenced |-> {}],
     [present |-> {"mappServices"}, cpu_pkg |-> TRUE, referenced |-> {"mappView"}],
     [present |-> {}, cpu_pkg |-> TRUE, referenced |-> {"mappMotion", "mappCockpit"}]}

MappInit ==
    /\ mp_apj \in Concats(ApjLineSet, MaxApjLines)
    /\ mp_verbose \in BOOLEAN
    /\ mp_physical \in BOOLEAN
    /\ mp_configs \in IF mp_physical THEN SeqsUpTo(ConfigOptions, 1) ELSE {<<>>}
    /\ mp_choice = ""
    /\ mp_required = <<>>
    /\ mp_log = <<>>
    /\ mp_pc = "versions"
    /\ ScanIdle
    /\ MainIdle
    /\ MatchIdle
    /\ LibIdle
    /\ CompatIdle
    /\ LogIdle
    /\ GroupIdle
    /\ TwiceIdle
    /\ RunIdle
    /\ SafetyIdle
    /\ SceneIdle
    /\ UpdateIdle

\* mapp_services.py:12-55
MappVersions ==
    /\ mp_pc = "versions"
    /\ mp_log' = <<TextLine("", "", "Checking mapp version in project file...")>>
                    \o VersionLinesOf(splitlines(read_file(mp_apj)))
    /\ mp_pc' = "motion"
    /\ UNCHANGED <<mp_apj, mp_verbose, mp_physical, mp_configs, mp_choice, mp_required>>
    /\ UNCHANGED nonMappVars

\* mapp_services.py:57-79
MappMotion ==
    /\ mp_pc = "motion"
    /\ LET txt == read_file(mp_apj)
           motion_choice == MotionChoice(SearchElement(txt, Acp10Names),
                                         SearchElement(txt, MappMotionNames))
       IN /\ mp_choice' = motion_choice
          /\ mp_required' = RequiredMappFolders(motion_choice)
    /\ mp_pc' = "folders"
    /\ UNCHANGED <<mp_apj, mp_verbose, mp_physical, mp_configs, mp_log>>
    /\ UNCHANGED nonMappVars

\* mapp_services.py:80-133
MappFolderCheck ==
    /\ mp_pc = "folders"
    /\ mp_log' = mp_log \o
          (IF ~mp_physical THEN <<TextLine("ERROR", "", "Could not find Physical")>>
           ELSE FolderLines(mp_configs, mp_required))
    /\ mp_pc' = "done"
    /\ UNCHANGED <<mp_apj, mp_verbose, mp_physical, mp_configs, mp_choice, mp_required>>
    /\ UNCHANGED nonMappVars

MappNext ==
    \/ MappVersions
    \/ MappMotion
    \/ MappFolderCheck

SpecMapp == MappInit /\ [][MappNext]_vars

\* C24: with verbose off no INFO line is logged; INFO lines are logged only
\* when verbose is on.
C24_InfoOnlyWhenVerbose ==
    ~mp_verbose => \A i \in 1..Len(mp_log) : mp_log[i].severity # "INFO"

HasAcp10 == SearchElement(Decode(mp_apj), Acp10Names)
HasMappMotion == SearchElement(Decode(mp_apj), MappMotionNames)

\* C28: when the descriptor mentions both an Acp10 package and mappMotion the
\* motion choice is ACP10 and mappMotion and mappCockpit are not required; with
\* one of the two it is that one, with neither it is "none".
C28_BothMeansAcp10 ==
    mp_pc \in {"folders", "done"} =>
        /\ mp_choice = (IF HasAcp10 THEN "acp10" ELSE IF HasMappMotion THEN "mappMotion" ELSE "none")
        /\ HasAcp10 => Range(mp_required) \cap {"mappMotion", "mappCockpit"} = {}

----------------------------------------------------------------------------
(* One invocation of the analyzer, from the launcher or the command line:   *)
(* the argument vector, parse_args, the result file and the check of the     *)
(* project path and name.                                                    *)

\* The options parse_args defines with parser.add_argument
KnownOptions == {"-v", "--verbose"}

\* gui_launcher.py:615-623 and the command line
BuildArgv(origin, with_verbose) ==
    <<"analyzer", "project_path">>
        \o (IF origin \in {"gui", "cli_no_file"} THEN <<"--no-file">> ELSE <<>>)
        \o (IF with_verbose THEN <<"--verbose">> ELSE <<>>)

\* parser.parse_args(): an argument that is no defined option ends the process
\* with status 2 (parser.error)
parse_args(argv) ==
    IF \E i \in 3..Len(argv) : argv[i] \notin KnownOptions
    THEN [outcome |-> "exit", status |-> 2, verbose |-> FALSE]
    ELSE [outcome |-> "ok", status |-> 0,
          verbose |-> \E i \in 3..Len(argv) : argv[i] \in KnownOptions]

\* r"^[\w :\\/!(){}+\-@\.\^=]+$"
PathChars == WordChars \cup {" ", ":", "\\", "/", "!", "(", ")", "{", "}", "+", "-", "@", ".", "^", "="}
DotApjChars == <<".", "a", "p", "j">>

\* re.fullmatch(project_path_pattern, path)
FullMatchPath(path) == Len(path) >= 1 /\ \A i \in 1..Len(path) : path[i] \in PathChars

\* re.fullmatch(r"^(\w+)\.apj$", name)
FullMatchName(name) ==
    /\ Len(name) >= 5
    /\ SubSeq(name, Len(name) - 3, Len(name)) = DotApjChars
    /\ \A i \in 1..(Len(name) - 4) : name[i] \in WordChars

\* as4_to_as6_analyzer.py:451-456 with main's lines 494-498, and
\* checks/common.py:6-16: the lines logged for a path and a name
check_project_path_and_name(module, path, name) ==
    IF FullMatchPath(path) /\ FullMatchName(name) THEN <<>>
    ELSE <<TextLine(IF module = "checks.common" THEN "ERROR" ELSE "", "",
                    "Invalid path or project name, see ...")>>

ProjectPaths ==
    {<<"C", ":", "\\", "p">>, <<"C", ":", "\\", "a", " ", "b">>,
     <<"C", ":", "\\", "p", "#">>, <<"C", ":", "\\", "p", "&", "q">>}
ProjectNames ==
    {<<"P">> \o DotApjChars, <<"P", "_", "1">> \o DotApjChars,
     <<"P", "-", "1">> \o DotApjChars, <<"P", ".", "x">> \o DotApjChars}

RunInit ==
    /\ run_origin \in {"gui", "cli", "cli_no_file"}
    /\ run_verbose \in BOOLEAN
    /\ run_path \in ProjectPaths
    /\ run_name \in ProjectNames
    /\ run_variant \in {"analyzer", "checks.common"}
    /\ run_argv = <<>>
    /\ run_file = FALSE
    /\ run_log = <<>>
    /\ run_ran = FALSE
    /\ run_exit = -1
    /\ run_pc = "argv"
    /\ ScanIdle
    /\ MainIdle
    /\ MatchIdle
    /\ LibIdle
    /\ CompatIdle
    /\ LogIdle
    /\ GroupIdle
    /\ TwiceIdle
    /\ MappIdle
    /\ SafetyIdle
    /\ SceneIdle
    /\ UpdateIdle

\* gui_launcher.py:615-625: sys.argv is built and module.main() is called
RunBuildArgv ==
    /\ run_pc = "argv"
    /\ run_argv' = BuildArgv(run_origin, run_verbose)
    /\ run_pc' = "parse"
    /\ UNCHANGED <<run_origin, run_verbose, run_path, run_name, run_variant,
                   run_file, run_log, run_ran, run_exit>>
    /\ UNCHANGED nonRunVars

\* as4_to_as6_analyzer.py:467-468: args, parser = parse_args()
RunParseArgs ==
    /\ run_pc = "parse"
    /\ LET r == parse_args(run_argv)
       IN IF r.outcome = "ok"
          THEN run_pc' = "open" /\ run_exit' = run_exit
          ELSE run_pc' = "done" /\ run_exit' = r.status
    /\ UNCHANGED <<run_origin, run_verbose, run_path, run_name, run_variant,
                   run_argv, run_file, run_log, run_ran>>
    /\ UNCHANGED nonRunVars

\* as4_to_as6_analyzer.py:477-490: the result file is opened for writing
RunOpenOutput ==
    /\ run_pc = "open"
    /\ run_file' = TRUE
    /\ run_log' = <<TextLine("", "", "Scanning started...")>>
    /\ run_pc' = "path"
    /\ UNCHANGED <<run_origin, run_verbose, run_path, run_name, run_variant,
                   run_argv, run_ran, run_exit>>
    /\ UNCHANGED nonRunVars

\* as4_to_as6_analyzer.py:494-498
RunPathCheck ==
    /\ run_pc = "path"
    /\ run_log' = run_log \o check_project_path_and_name(run_variant, run_path, run_name)
    /\ run_pc' = "checks"
    /\ UNCHANGED <<run_origin, run_verbose, run_path, run_name, run_variant,
                   run_argv, run_file, run_ran, run_exit>>
    /\ UNCHANGED nonRunVars

\* as4_to_as6_analyzer.py:500-840: the remaining checks, then main returns
RunChecks ==
    /\ run_pc = "checks"
    /\ run_ran' = TRUE
    /\ run_log' = Append(run_log, TextLine("", "", "Scanning completed successfully"))
    /\ run_exit' = 0
    /\ run_pc' = "done"
    /\ UNCHANGED <<run_origin, run_verbose, run_path, run_name, run_variant,
                   run_argv, run_file>>
    /\ UNCHANGED nonRunVars

RunNext ==
    \/ RunBuildArgv
    \/ RunParseArgs
    \/ RunOpenOutput
    \/ RunPathCheck
    \/ RunChecks

SpecRun == RunInit /\ [][RunNext]_vars

\* C25: invoked with --no-file the analyzer runs all checks and neither
\* creates nor writes the result file.
C25_NoFileRunsChecksWithoutTranscript ==
    (run_pc = "done" /\ \E i \in 1..Len(run_argv) : run_argv[i] = "--no-file") =>
        run_ran /\ ~run_file

\* C26: a project path or .apj name with characters outside the allowed set
\* is reported as an ERROR entry inside the report and the run goes on with
\* the remaining checks; a valid path and name give no such entry.
C26_InvalidPathIsErrorEntry ==
    (run_pc = "done" /\ run_exit = 0) =>
        /\ run_ran
        /\ (\E i \in 1..Len(run_log) : run_log[i].severity = "ERROR") <=>
              ~(FullMatchPath(run_path) /\ FullMatchName(run_name))

----------------------------------------------------------------------------
(* safety_check.check_safety_release and check_safety.  A file of the walk  *)
(* is its suffix, whether it can be read, and the two numbers of its         *)
(* SafetyRelease="m.n" attribute (<<>> without the attribute).               *)

MaxSafetyFiles == 2

MappSafetyDetail == "Migrating from mapp Safety 5.x to mapp Safety 6.x"
LegacyDetail == "Legacy safety is no longer supported with AS 6.x."
SwtDetail == "Safety .swt file found but no SafetyRelease or MappSafety version found"
ParseFailedDetail == "Failed to parse .apj file"
ReadFailedDetail == "Failed to read"
NoSafetyFinding == "No safety system detected"

\* safety_check.py:24-37: the .apj of the root is parsed and searched for mappSafety
ApjStep(apj, result) ==
    IF apj = "mappSafety"
    THEN [returned |-> TRUE, mode |-> "mappsafety", details |-> Append(result.details, MappSafetyDetail)]
    ELSE IF apj = "unparsable"
    THEN [result EXCEPT !.details = Append(@, ParseFailedDetail)]
    ELSE result

\* match and (match.group(1) != "0" or match.group(2) != "0")
ReleaseNotZero(release) == release # <<>> /\ (release[1] # "0" \/ release[2] # "0")

\* safety_check.py:40-61: the first .pkg of the walk with a release other than 0.0
RECURSIVE PkgStep(_, _)
PkgStep(files, result) ==
    IF files = <<>> THEN result
    ELSE LET f == Head(files)
         IN IF f.suffix # "pkg" THEN PkgStep(Tail(files), result)
            ELSE IF ~f.readable
            THEN PkgStep(Tail(files), [result EXCEPT !.details = Append(@, ReadFailedDetail)])
            ELSE IF ReleaseNotZero(f.release)
            THEN [returned |-> TRUE, mode |-> "safetyrelease",
                  details |-> Append(result.details, LegacyDetail)]
            ELSE PkgStep(Tail(files), result)

\* safety_check.py:64-72: the first .swt of the walk
SwtStep(files, result) ==
    IF \E i \in 1..Len(files) : files[i].suffix = "swt"
    THEN [returned |-> TRUE, mode |-> "safetyrelease", details |-> Append(result.details, SwtDetail)]
    ELSE result

NoSafety == [returned |-> FALSE, mode |-> "none", details |-> <<>>]

\* The order in which the packages are searched before the .apj is looked at
CheckSafetyReleasePackagesFirst(apj, files) ==
    LET r1 == PkgStep(files, NoSafety)
        r2 == IF r1.returned THEN r1 ELSE ApjStep(apj, r1)
    IN IF r2.returned THEN r2 ELSE SwtStep(files, r2)

\* safety_check.check_safety_release
check_safety_release(apj, files) ==
    LET r1 == ApjStep(apj, NoSafety)
        r2 == IF r1.returned THEN r1 ELSE PkgStep(files, r1)
    IN IF r2.returned THEN r2 ELSE SwtStep(files, r2)

\* safety_check.check_safety: findings from the result
check_safety(result) ==
    IF result.mode = "mappsafety" THEN result.details
    ELSE IF result.mode = "safetyrelease" THEN result.details
    ELSE <<NoSafetyFinding>>

SafetyFiles ==
    {[suffix |-> "pkg", readable |-> TRUE, release |-> r] :
        r \in {<<>>, <<"0", "0">>, <<"1", "0">>, <<"0", "5">>}}
      \cup {[suffix |-> "pkg", readable |-> FALSE, release |-> <<"1", "0">>],
            [suffix |-> "swt", readable |-> TRUE, release |-> <<>>],
            [suffix |-> "st", readable |-> TRUE, release |-> <<>>]}

SafetyInit ==
    /\ sf_apj \in {"none", "unparsable", "plain", "mappSafety"}
    /\ sf_files \in SeqsUpTo(SafetyFiles, MaxSafetyFiles)
    /\ sf_result = NoSafety
    /\ sf_findings = <<>>
    /\ sf_pc = "release"
    /\ ScanIdle
    /\ MainIdle
    /\ MatchIdle
    /\ LibIdle
    /\ CompatIdle
    /\ LogIdle
    /\ GroupIdle
    /\ TwiceIdle
    /\ MappIdle
    /\ RunIdle
    /\ SceneIdle
    /\ UpdateIdle

\* safety_check.py:78
SafetyRelease ==
    /\ sf_pc = "release"
    /\ sf_result' = check_safety_release(sf_apj, sf_files)
    /\ sf_pc' = "findings"
    /\ UNCHANGED <<sf_apj, sf_files, sf_findings>>
    /\ UNCHANGED nonSafetyVars

\* safety_check.py:79-88
SafetyFindings ==
    /\ sf_pc = "findings"
    /\ sf_findings' = check_safety(sf_result)
    /\ sf_pc' = "done"
    /\ UNCHANGED <<sf_apj, sf_files, sf_result>>
    /\ UNCHANGED nonSafetyVars

SafetyNext ==
    \/ SafetyRelease
    \/ SafetyFindings

SpecSafety == SafetyInit /\ [][SafetyNext]_vars

HasReleasePkg ==
    \E i \in 1..Len(sf_files) :
        /\ sf_files[i].suffix = "pkg" /\ sf_files[i].readable
        /\ sf_files[i].release \notin {<<>>, <<"0", "0">>}
HasSwt == \E i \in 1..Len(sf_files) : sf_files[i].suffix = "swt"
Hits == {MappSafetyDetail, LegacyDetail, SwtDetail}

\* C27: check_safety_release decides in a fixed priority order and stops at
\* the first hit: mappSafety in the .apj, else a .pkg with a SafetyRelease other
\* than 0.0, else any .swt file, else none; the mode is one of the three
\* values and check_safety returns at least one entry.
C27_SafetyPriorityOrder ==
    /\ sf_result.mode \in {"mappsafety", "safetyrelease", "none"}
    /\ sf_pc \in {"findings", "done"} =>
          LET hit == IF sf_apj = "mappSafety" THEN MappSafetyDetail
                     ELSE IF HasReleasePkg THEN LegacyDetail
                     ELSE IF HasSwt THEN SwtDetail ELSE ""
          IN /\ sf_result.mode = (IF hit = MappSafetyDetail THEN "mappsafety"
                                  ELSE IF hit = "" THEN "none" ELSE "safetyrelease")
             /\ \A i \in 1..Len(sf_result.details) :
                   sf_result.details[i] \in Hits =>
                       sf_result.details[i] = hit /\ i = Len(sf_result.details)
             /\ hit # "" => \E i \in 1..Len(sf_result.details) : sf_result.details[i] = hit
    /\ sf_pc = "done" => Len(sf_findings) >= 1

C27_Witness ==
    /\ sf_pc = "done"
    /\ sf_apj = "mappSafety" /\ HasReleasePkg /\ HasSwt
    /\ sf_result.mode = "mappsafety"
    /\ Len(sf_findings) = 1

----------------------------------------------------------------------------
(* scene_viewer.check_scene_viewer.  An .objecthierarchy file is its text   *)
(* around the mention and the values the two findall calls extract from it; *)
(* a .hw file is the Value of its FileDeviceName parameter.                  *)

MaxSceneFiles == 2

Whitespace == {" ", "\t", "\n"}
SceneWord == <<"s", "c", "e", "n", "e">>
ViewerWord == <<"v", "i", "e", "w", "e", "r">>
SvgDataWord == <<"s", "v", "g", "d", "a", "t", "a">>

\* re.search(r"Scene\s*Viewer", text, flags=re.IGNORECASE) is not None
HasSceneViewer(text) ==
    \E i \in 1..Len(text) : \E j \in (i + 5)..Len(text) :
        /\ Lower(SubSeq(text, i, i + 4)) = SceneWord
        /\ \A k \in (i + 5)..(j - 1) : text[k] \in Whitespace
        /\ j + 5 <= Len(text)
        /\ Lower(SubSeq(text, j, j + 5)) = ViewerWord

\* values = [v.strip() for v in values if v and v.strip()]
StrippedValues(values) ==
    SelectSeq(values, LAMBDA v : \E k \in 1..Len(v) : v[k] \notin Whitespace)

\* scene_viewer.py:67-75, the Value of the FileDeviceName parameter, ignoring case
HasSvgData(value) == Lower(value) = SvgDataWord

DetectedLine(origin, file) ==
    [message |-> "Scene Viewer usage detected", origin |-> origin, file |-> file,
     when |-> "AS4", severity |-> "INFO"]
FollowUpLine(message, severity) ==
    [message |-> message, origin |-> "", file |-> 0, when |-> "AS6", severity |-> severity]
SceneNote(message, severity, file) ==
    [message |-> message, origin |-> "", file |-> file, when |-> "", severity |-> severity]

GeneratedMessage == "Automatically generated scenes from mapp Robotics and mapp Trak require Scene Viewer 6.0 or newer."
ScnMessage == "Scene files (.scn) were detected in the project."

\* The two lines of a message that treats every origin as generated
EmitAlwaysGenerated(origin, file, generated) ==
    <<DetectedLine(origin, file), FollowUpLine(GeneratedMessage, "WARNING")>>

\* scene_viewer._emit_scene_viewer_message
emit_scene_viewer_message(origin, file, generated) ==
    <<DetectedLine(origin, file),
      IF generated THEN FollowUpLine(GeneratedMessage, "WARNING")
      ELSE FollowUpLine(ScnMessage, "INFO")>>

SceneTexts ==
    {<<"S", "c", "e", "n", "e", " ", "V", "i", "e", "w", "e", "r">>,
     <<"s", "c", "e", "n", "e", "v", "i", "e", "w", "e", "r">>,
     <<"S", "c", "e", "n", "e", " ", "3", "D">>}
ObjectHierarchies ==
    {[text |-> <<"S", "c", "e", "n", "e", " ", "V", "i", "e", "w", "e", "r">>, values |-> <<>>],
     [text |-> <<"S", "c", "e", "n", "e", " ", "V", "i", "e", "w", "e", "r">>, values |-> <<<<>>, <<" ">>>>],
     [text |-> <<"s", "c", "e", "n", "e", "v", "i", "e", "w", "e", "r">>, values |-> <<<<" ">>, <<"U", "S", "R">>>>],
     [text |-> <<"S", "c", "e", "n", "e", " ", "3", "D">>, values |-> <<<<"U", "S", "R">>>>]}
HwValues == {<<"S", "v", "g", "D", "a", "t", "a">>, <<"U", "S", "R">>}
Logicals == {[exists |-> FALSE, scn |-> FALSE], [exists |-> TRUE, scn |-> FALSE],
             [exists |-> TRUE, scn |-> TRUE]}

SceneInit ==
    /\ sc_oh \in SeqsUpTo(ObjectHierarchies, MaxSceneFiles)
    /\ sc_hw \in SeqsUpTo(HwValues, MaxSceneFiles)
    /\ sc_logical \in Logicals
    /\ sc_verbose \in BOOLEAN
    /\ sc_i = 0
    /\ sc_log = <<>>
    /\ sc_pc = "header"
    /\ ScanIdle
    /\ MainIdle
    /\ MatchIdle
    /\ LibIdle
    /\ CompatIdle
    /\ LogIdle
    /\ GroupIdle
    /\ TwiceIdle
    /\ MappIdle
    /\ RunIdle
    /\ SafetyIdle
    /\ UpdateIdle

\* scene_viewer.py:19-21
SceneHeader ==
    /\ sc_pc = "header"
    /\ sc_log' = Append(sc_log, SceneNote("Checking Scene Viewer usage...", "", 0))
    /\ sc_i' = 1
    /\ sc_pc' = "oh"
    /\ UNCHANGED <<sc_oh, sc_hw, sc_logical, sc_verbose>>
    /\ UNCHANGED nonSceneVars

\* scene_viewer.py:24-61, one .objecthierarchy file of the loop
SceneObjectHierarchy ==
    /\ sc_pc = "oh"
    /\ sc_i <= Len(sc_oh)
    /\ LET f == sc_oh[sc_i]
       IN IF ~HasSceneViewer(f.text)
          THEN /\ sc_i' = sc_i + 1
               /\ UNCHANGED <<sc_log, sc_pc>>
          ELSE IF StrippedValues(f.values) # <<>>
          THEN /\ sc_log' = sc_log \o emit_scene_viewer_message("mapp Robotics (.objecthierarchy)", sc_i, TRUE)
               /\ sc_pc' = "done"
               /\ UNCHANGED sc_i
          ELSE /\ sc_log' = IF sc_verbose
                            THEN Append(sc_log, SceneNote("no file device value set", "INFO", sc_i))
                            ELSE sc_log
               /\ sc_i' = sc_i + 1
               /\ UNCHANGED sc_pc
    /\ UNCHANGED <<sc_oh, sc_hw, sc_logical, sc_verbose>>
    /\ UNCHANGED nonSceneVars

\* scene_viewer.py:24 and 64: the first loop is exhausted, the second begins
SceneObjectHierarchyEnd ==
    /\ sc_pc = "oh"
    /\ sc_i > Len(sc_oh)
    /\ sc_i' = 1
    /\ sc_pc' = "hw"
    /\ UNCHANGED <<sc_oh, sc_hw, sc_logical, sc_verbose, sc_log>>
    /\ UNCHANGED nonSceneVars

\* scene_viewer.py:64-81, one .hw file of the loop
SceneHw ==
    /\ sc_pc = "hw"
    /\ sc_i <= Len(sc_hw)
    /\ IF HasSvgData(sc_hw[sc_i])
       THEN /\ sc_log' = sc_log \o emit_scene_viewer_message("mapp Trak (.hw)", sc_i, TRUE)
            /\ sc_pc' = "done"
            /\ UNCHANGED sc_i
       ELSE /\ sc_i' = sc_i + 1
            /\ UNCHANGED <<sc_log, sc_pc>>
    /\ UNCHANGED <<sc_oh, sc_hw, sc_logical, sc_verbose>>
    /\ UNCHANGED nonSceneVars

\* scene_viewer.py:84-96, the fallback and the closing line
SceneScn ==
    /\ sc_pc = "hw"
    /\ sc_i > Len(sc_hw)
    /\ IF sc_logical.exists /\ sc_logical.scn
       THEN sc_log' = sc_log \o emit_scene_viewer_message(".scn file present", 1, FALSE)
       ELSE IF sc_verbose
       THEN sc_log' = Append(sc_log, SceneNote("No Scene Viewer usage was detected in this project.", "INFO", 0))
       ELSE UNCHANGED sc_log
    /\ sc_pc' = "done"
    /\ UNCHANGED <<sc_oh, sc_hw, sc_logical, sc_verbose, sc_i>>
    /\ UNCHANGED nonSceneVars

SceneNext ==
    \/ SceneHeader
    \/ SceneObjectHierarchy
    \/ SceneObjectHierarchyEnd
    \/ SceneHw
    \/ SceneScn

SpecScene == SceneInit /\ [][SceneNext]_vars

OhHits == {i \in 1..Len(sc_oh) :
              /\ sc_oh[i].text \in SceneTexts \ {<<"S", "c", "e", "n", "e", " ", "3", "D">>}
              /\ \E k \in 1..Len(sc_oh[i].values) : sc_oh[i].values[k] \notin {<<>>, <<" ">>}}
HwHits == {i \in 1..Len(sc_hw) : sc_hw[i] = <<"S", "v", "g", "D", "a", "t", "a">>}
Smallest(S) == CHOOSE i \in S : \A j \in S : i <= j
Detections == {k \in 1..Len(sc_log) : sc_log[k].message = "Scene Viewer usage detected"}

\* C29: check_scene_viewer stops at the first hit in the order .objecthierarchy
\* (Scene Viewer mention and a non-empty file device value), .hw (SvgData),
\* .scn under Logical: an invocation logs at most one 'Scene Viewer usage
\* detected' line, and the line after it is a WARNING for the two generated
\* origins and an INFO for the .scn origin.
C29_SceneViewerShortCircuit ==
    /\ Cardinality(Detections) <= 1
    /\ \A k \in Detections :
          /\ k < Len(sc_log)
          /\ sc_log[k + 1].severity =
                (IF sc_log[k].origin = ".scn file present" THEN "INFO" ELSE "WARNING")
          /\ sc_pc = "done" /\ k + 1 = Len(sc_log)
    /\ sc_pc = "done" =>
          IF OhHits # {}
          THEN \E k \in Detections :
                  /\ sc_log[k].origin = "mapp Robotics (.objecthierarchy)"
                  /\ sc_log[k].file = Smallest(OhHits)
          ELSE IF HwHits # {}
          THEN \E k \in Detections :
                  /\ sc_log[k].origin = "mapp Trak (.hw)"
                  /\ sc_log[k].file = Smallest(HwHits)
          ELSE IF sc_logical = [exists |-> TRUE, scn |-> TRUE]
          THEN \E k \in Detections : sc_log[k].origin = ".scn file present"
          ELSE Detections = {}

C29_Witness ==
    /\ sc_pc = "done"
    /\ OhHits = {} /\ HwHits = {} /\ Len(sc_oh) > 0 /\ Len(sc_hw) > 0
    /\ \E k \in Detections :
          /\ sc_log[k].origin = ".scn file present"
          /\ sc_log[k + 1].severity = "INFO"

----------------------------------------------------------------------------
(* update_check: the state file and the three calls on it.  A JSON object is *)
(* a set of <<key, value>> pairs with one pair per key; a version is its     *)
(* characters.                                                               *)

MaxCalls == 3

NoneValue == <<"None">>
IGNORED == "ignored_version"

Keys(dict) == {p[1] : p \in dict}
Get(dict, key) == IF key \in Keys(dict) THEN (CHOOSE p \in dict : p[1] = key)[2] ELSE NoneValue
Put(dict, key, value) == {p \in dict : p[1] # key} \cup {<<key, value>>}
Del(dict, key) == {p \in dict : p[1] # key}

\* update_check.load_state
load_state(file) == IF file.kind = "json" THEN file.dict ELSE {}

\* update_check.save_state
save_state(state) == [kind |-> "json", dict |-> state]

\* update_check.get_ignored_version
get_ignored_version(file) == Get(load_state(file), IGNORED)

\* A setter that writes a fresh state holding the one key
SetIgnoredVersionFresh(file, version) == save_state({<<IGNORED, version>>})

\* update_check.set_ignored_version
set_ignored_version(file, version) == save_state(Put(load_state(file), IGNORED, version))

\* update_check.clear_ignored_version
clear_ignored_version(file) ==
    LET st == load_state(file)
    IN IF IGNORED \in Keys(st) THEN save_state(Del(st, IGNORED)) ELSE file

\* update_check.normalize_version: v.strip()
RECURSIVE LStripChars(_, _)
LStripChars(v, chars) ==
    IF v # <<>> /\ Head(v) \in chars THEN LStripChars(Tail(v), chars) ELSE v
Reverse(v) == [i \in 1..Len(v) |-> v[Len(v) + 1 - i]]
normalize_version(v) == Reverse(LStripChars(Reverse(LStripChars(v, Whitespace)), Whitespace))

\* v.split(".")
RECURSIVE SplitDots(_, _)
SplitDots(v, part) ==
    IF v = <<>> THEN <<part>>
    ELSE IF Head(v) = "." THEN <<part>> \o SplitDots(Tail(v), <<>>)
    ELSE SplitDots(Tail(v), Append(part, Head(v)))

DigitChars == <<"0", "1", "2", "3", "4", "5", "6", "7", "8", "9">>
DigitValue(c) == (CHOOSE i \in 1..10 : DigitChars[i] = c) - 1
RECURSIVE DecimalValue(_, _)
DecimalValue(p, acc) ==
    IF p = <<>> THEN acc ELSE DecimalValue(Tail(p), acc * 10 + DigitValue(Head(p)))
\* int(p), -1 on ValueError
IntOrMinusOne(p) ==
    IF p # <<>> /\ \A i \in 1..Len(p) : p[i] \in Range(DigitChars)
    THEN DecimalValue(p, 0) ELSE -1

\* update_check.parse_version_tuple
parse_version_tuple(v) ==
    LET parts == SplitDots(LStripChars(v, {"v", "V"}), <<>>)
        nums == [i \in 1..Len(parts) |-> IntOrMinusOne(parts[i])]
    IN [i \in 1..4 |-> IF i <= Len(nums) THEN nums[i] ELSE -1]

\* tuple comparison a > b
TupleGreater(a, b) ==
    \E i \in 1..4 : a[i] > b[i] /\ \A j \in 1..(i - 1) : a[j] = b[j]

\* update_check.is_newer
is_newer(remote, local) ==
    IF local = <<"d", "e", "v">> THEN TRUE
    ELSE TupleGreater(parse_version_tuple(remote), parse_version_tuple(local))

NoRelease == [some |-> FALSE, tag |-> <<>>]

\* update_check.check_for_newer; a release is the tag_name it carries
check_for_newer(file, current_version, release) ==
    IF ~release.some THEN NoRelease
    ELSE IF release.tag = <<>> THEN NoRelease
    ELSE LET tag == normalize_version(release.tag)
         IN IF tag = get_ignored_version(file) THEN NoRelease
            ELSE IF ~is_newer(tag, current_version) THEN NoRelease
            ELSE [some |-> TRUE, tag |-> tag]

V10 == <<"v", "1", ".", "0">>
V19 == <<"v", "1", ".", "9">>
V110 == <<"V", "1", ".", "1", "0">>
Tags == {V10, V19, V110}
Releases ==
    {NoRelease, [some |-> TRUE, tag |-> <<>>], [some |-> TRUE, tag |-> V19 \o <<"\n">>]}
        \cup {[some |-> TRUE, tag |-> t] : t \in Tags}
OtherPairs == {<<"last_check", <<"2", "0", "2", "5">>>>}
StateFiles ==
    {[kind |-> "absent", dict |-> {}], [kind |-> "corrupt", dict |-> {}],
     [kind |-> "json", dict |-> {}], [kind |-> "json", dict |-> OtherPairs],
     [kind |-> "json", dict |-> OtherPairs \cup {<<IGNORED, V19>>}]}

UpdateInit ==
    /\ up_file \in StateFiles
    /\ up_before = up_file
    /\ up_current \in {<<"d", "e", "v">>, V10, V19}
    /\ up_release = NoRelease
    /\ up_returned = NoRelease
    /\ up_ops = <<>>
    /\ ScanIdle
    /\ MainIdle
    /\ MatchIdle
    /\ LibIdle
    /\ CompatIdle
    /\ LogIdle
    /\ GroupIdle
    /\ TwiceIdle
    /\ MappIdle
    /\ RunIdle
    /\ SafetyIdle
    /\ SceneIdle

\* update_check.py:58-61
SetIgnored ==
    /\ Len(up_ops) < MaxCalls
    /\ \E version \in Tags : up_file' = set_ignored_version(up_file, version)
    /\ up_before' = up_file
    /\ up_ops' = Append(up_ops, "set")
    /\ UNCHANGED <<up_current, up_release, up_returned>>
    /\ UNCHANGED nonUpdateVars

\* update_check.py:64-68
ClearIgnored ==
    /\ Len(up_ops) < MaxCalls
    /\ up_file' = clear_ignored_version(up_file)
    /\ up_before' = up_file
    /\ up_ops' = Append(up_ops, "clear")
    /\ UNCHANGED <<up_current, up_release, up_returned>>
    /\ UNCHANGED nonUpdateVars

\* update_check.py:113-138
CheckForNewer ==
    /\ Len(up_ops) < MaxCalls
    /\ \E release \in Releases :
          /\ up_release' = release
          /\ up_returned' = check_for_newer(up_file, up_current, release)
    /\ up_before' = up_file
    /\ up_ops' = Append(up_ops, "check")
    /\ UNCHANGED <<up_file, up_current>>
    /\ UNCHANGED nonUpdateVars

UpdateNext ==
    \/ SetIgnored
    \/ ClearIgnored
    \/ CheckForNewer

SpecUpdate == UpdateInit /\ [][UpdateNext]_vars

LastOp == IF up_ops = <<>> THEN "" ELSE up_ops[Len(up_ops)]
\* The releases in the order of their publication
ReleaseRank(tag) ==
    CASE tag = V10 -> 1
      [] tag = V19 -> 2
      [] tag = V19 \o <<"\n">> -> 2
      [] tag = V110 -> 3
      [] OTHER -> 0
IsNewerRelease ==
    /\ up_release.some /\ up_release.tag # <<>>
    /\ up_current = <<"d", "e", "v">> \/ ReleaseRank(up_release.tag) > ReleaseRank(up_current)
OtherKeys(file) == {p \in file.dict : p[1] # IGNORED}

====
